---------------------------- MODULE Spec2Model ----------------------------
(***************************************************************************)
(* TokenStream: the Writer and Reader engines, the length encoding, the    *)
(* numeric codec, containers and sub-streams.                              *)
(*                                                                         *)
(* Every uint64_t / size_t / Token of the program is an 8-tuple of bytes,  *)
(* most significant byte first, and its arithmetic is arithmetic modulo    *)
(* 2^64 on those tuples (Add64, Sub64, Less64).  A typed integer of width  *)
(* w bytes is its w-tuple of big-endian (two's complement) bytes, which is *)
(* what the uintN_be / intN_be conversion objects hold in memory.          *)
(***************************************************************************)
EXTENDS Integers, Sequences, FiniteSets, TLC

VARIABLES writer, reader, scopes, pc, inp, out

vars == <<writer, reader, scopes, pc, inp, out>>

---------------------------------------------------------------------------
(* Bounds of the model *)

\* how many of the sample bytes of SampleByteSeq the inputs draw from
NumSampleBytes == 5

\* how many of the sample tokens of SampleTokenSeq the inputs draw from
NumSampleTokens == 4

\* the longest container written
MaxItems == 3

---------------------------------------------------------------------------
(* Bytes and 64-bit unsigned arithmetic *)

Byte == 0..255

\* bytes around the boundaries of the encodings: 0x00, 0xFF, 0x80, 0x78, 0x77, ...
SampleByteSeq == <<0, 255, 128, 120, 119, 127, 1, 248, 247, 249, 2, 64>>

SampleBytes ==
  {SampleByteSeq[i] : i \in 1..(IF NumSampleBytes < Len(SampleByteSeq)
                                  THEN NumSampleBytes ELSE Len(SampleByteSeq))}

Zeros(n) == [i \in 1..n |-> 0]

\* the 8-byte big-endian image of a small natural number (n < 2^31)
FromNat(n) ==
  <<0, 0, 0, 0, (n \div 16777216) % 256, (n \div 65536) % 256, (n \div 256) % 256, n % 256>>

IsSmall(u) == u[1] = 0 /\ u[2] = 0 /\ u[3] = 0 /\ u[4] = 0 /\ u[5] < 128

\* the number a small 64-bit value stands for
ToNat(u) == u[5] * 16777216 + u[6] * 65536 + u[7] * 256 + u[8]

Zero64 == FromNat(0)

One64 == FromNat(1)

\* a + b modulo 2^64, byte by byte with the carries c8 .. c2
Add64(a, b) ==
  LET c8 == (a[8] + b[8]) \div 256
      c7 == (a[7] + b[7] + c8) \div 256
      c6 == (a[6] + b[6] + c7) \div 256
      c5 == (a[5] + b[5] + c6) \div 256
      c4 == (a[4] + b[4] + c5) \div 256
      c3 == (a[3] + b[3] + c4) \div 256
      c2 == (a[2] + b[2] + c3) \div 256
  IN  <<(a[1] + b[1] + c2) % 256, (a[2] + b[2] + c3) % 256, (a[3] + b[3] + c4) % 256,
        (a[4] + b[4] + c5) % 256, (a[5] + b[5] + c6) % 256, (a[6] + b[6] + c7) % 256,
        (a[7] + b[7] + c8) % 256, (a[8] + b[8]) % 256>>

\* a - b modulo 2^64: a plus the two's complement of b
Sub64(a, b) ==
  Add64(Add64(a, <<255 - b[1], 255 - b[2], 255 - b[3], 255 - b[4],
                   255 - b[5], 255 - b[6], 255 - b[7], 255 - b[8]>>),
        <<0, 0, 0, 0, 0, 0, 0, 1>>)

\* a < b as unsigned 64-bit values
Less64(a, b) == \E i \in 1..8 : a[i] < b[i] /\ \A j \in 1..(i - 1) : a[j] = b[j]

\* Token::InvalidTokenValue
InvalidTokenValue == [i \in 1..8 |-> 255]

\* the bytes of s from index from+1 on, at most n of them
Slice(s, from, n) ==
  SubSeq(s, from + 1, IF Len(s) - from < n THEN Len(s) ELSE from + n)

\* tokens of one, two, three and nine encoded bytes: 0x20, 0x00, 0x80,
\* 0xFFFFFFFFFFFFFFFE, 0x7800, 0xF8, 0x7F
SampleTokenSeq ==
  <<FromNat(32), FromNat(0), FromNat(128), [i \in 1..8 |-> IF i = 8 THEN 254 ELSE 255],
    FromNat(30720), FromNat(248), FromNat(127)>>

SampleTokens ==
  {SampleTokenSeq[i] : i \in 1..(IF NumSampleTokens < Len(SampleTokenSeq)
                                   THEN NumSampleTokens ELSE Len(SampleTokenSeq))}

---------------------------------------------------------------------------
(* Writer *)

\* a Writer over a fresh sink.  stream is what the sink holds; sinkFailed is
\* the failed state of the std::ostream, which a sink of bounded room enters
\* when it is asked for more than its room
NewWriter(trimDefaults) ==
  [stream |-> <<>>, nextToken |-> InvalidTokenValue, trimDefaults |-> trimDefaults,
   badStream |-> FALSE, containerToken |-> InvalidTokenValue,
   containerElementCount |-> Zero64, containerElementIndex |-> Zero64,
   sinkFailed |-> FALSE, sinkBounded |-> FALSE, sinkRoom |-> 0]

\* VERIFIED_WRITE: m_stream->write and the test of m_stream.  m_stream is
\* the pointer to the sink, which is never null: the test never fails and
\* m_badStream is not set.  A failed sink takes nothing, a sink short of room
\* takes what fits and fails.
VerifiedWrite(w, bytes) ==
  IF w.sinkFailed THEN w
  ELSE IF w.sinkBounded /\ Len(bytes) > w.sinkRoom
       THEN [w EXCEPT !.stream = w.stream \o SubSeq(bytes, 1, w.sinkRoom),
                      !.sinkRoom = 0, !.sinkFailed = TRUE]
       ELSE [w EXCEPT !.stream = w.stream \o bytes,
                      !.sinkRoom = IF w.sinkBounded THEN @ - Len(bytes) ELSE @]

\* mutant: the leading zero bytes are kept
MutKeepLeadingZeros(block) == block

RECURSIVE StripLeadingZeros(_)
\* while (len > 1 && !*block) { len--; block++; }
StripLeadingZeros(block) ==
  IF Len(block) > 1 /\ block[1] = 0 THEN StripLeadingZeros(Tail(block)) ELSE block

RECURSIVE StripLeadingFF(_)
\* while (len > 1 && *block == 0xff && (block[1] & 0x80) == 0x80) { len--; block++; }
StripLeadingFF(block) ==
  IF Len(block) > 1 /\ block[1] = 255 /\ block[2] >= 128
  THEN StripLeadingFF(Tail(block))
  ELSE block

\* mutant: the two-byte form is used up to 0x8000 instead of 0x7800
MutWriteLengthEncodedWideWord(w, value) ==
  IF w.badStream THEN w
  ELSE IF Less64(value, FromNat(128)) THEN VerifiedWrite(w, <<value[8]>>)
  ELSE IF Less64(value, FromNat(32768))
    THEN VerifiedWrite(w, <<value[7] + 128, value[8]>>)
  ELSE LET block == StripLeadingZeros(value)
       IN  VerifiedWrite(VerifiedWrite(w, <<(Len(block) + 247) % 256>>), block)

\* Writer::WriteLengthEncoded
WriteLengthEncoded(w, value) ==
  IF w.badStream THEN w
  ELSE IF Less64(value, FromNat(128)) THEN VerifiedWrite(w, <<value[8]>>)
  ELSE IF Less64(value, FromNat(30720))
    THEN VerifiedWrite(w, <<(IF value[7] >= 128 THEN value[7] ELSE value[7] + 128), value[8]>>)
  ELSE LET block == StripLeadingZeros(value)
       IN  VerifiedWrite(VerifiedWrite(w, <<(Len(block) + 247) % 256>>), block)

\* Writer::PutDataHeader for an item of the open container: the index is
\* counted, the container is closed after its last item, the length written
PutElementHeader(w, idx, len) ==
  WriteLengthEncoded(
    [w EXCEPT !.containerElementIndex = idx,
              !.containerToken = IF idx = w.containerElementCount
                                 THEN InvalidTokenValue ELSE @],
    len)

\* Writer::PutDataHeader once m_nextToken is cleared.  tellp() of a failed
\* sink is -1, which is not 0.
PutHeader(w, token, len) ==
  IF len # Zero64 \/ ~w.trimDefaults
  THEN IF w.containerToken # InvalidTokenValue
       THEN IF token # w.containerToken
            THEN [w EXCEPT !.badStream = TRUE]
            ELSE IF w.containerElementIndex = Zero64
                 THEN PutElementHeader(WriteLengthEncoded(w, token), One64, len)
                 ELSE PutElementHeader(w, Add64(w.containerElementIndex, One64), len)
       ELSE IF token = InvalidTokenValue /\ (w.sinkFailed \/ Len(w.stream) # 0)
            THEN [w EXCEPT !.badStream = TRUE]
       ELSE IF token # InvalidTokenValue
            THEN WriteLengthEncoded(WriteLengthEncoded(w, token), len)
       ELSE WriteLengthEncoded(w, len)
  ELSE w

\* Writer::PutDataHeader
PutDataHeader(w, token, len) == PutHeader([w EXCEPT !.nextToken = InvalidTokenValue], token, len)

\* the block PutData keeps of a numeric payload (leading zero / sign compression)
TrimmedBlock(data, removeLeadingZeros, handleExtendedSign) ==
  IF Len(data) > 0 /\ removeLeadingZeros
  THEN IF handleExtendedSign /\ data[1] = 255
       THEN StripLeadingFF(data)
       ELSE LET z == StripLeadingZeros(data)
            IN  IF handleExtendedSign /\ Len(z) > 0 /\ Len(z) # Len(data) /\ z[1] >= 128
                THEN <<0>> \o z
                ELSE z
  ELSE data

\* Writer::PutData from the header on: block is what is left of the data
PutBlock(w, token, block) ==
  IF Len(block) > 0
  THEN VerifiedWrite(PutDataHeader(w, token, FromNat(Len(block))), block)
  ELSE PutDataHeader(w, token, Zero64)

\* mutant: PutData goes on with bad_stream set
MutPutDataNoLatch(w, token, data, removeLeadingZeros, handleExtendedSign) ==
  PutBlock(w, token, TrimmedBlock(data, removeLeadingZeros, handleExtendedSign))

\* Writer::PutData
PutData(w, token, data, removeLeadingZeros, handleExtendedSign) ==
  IF w.badStream THEN w
  ELSE PutBlock(w, token, TrimmedBlock(data, removeLeadingZeros, handleExtendedSign))

\* Writer::PutToken
PutToken(w, token) == [w EXCEPT !.nextToken = token]

\* mutant: a value equal to its default is written all the same
MutPutNumberNoTrim(w, token, value, defaultValue, extendedSign) ==
  PutData(w, token, value, TRUE, extendedSign)

\* PUTNUMBER: value and defaultValue are the big-endian bytes of the
\* conversion type
PutNumber(w, token, value, defaultValue, extendedSign) ==
  IF ~w.trimDefaults \/ value # defaultValue
  THEN PutData(w, token, value, TRUE, extendedSign)
  ELSE [w EXCEPT !.nextToken = InvalidTokenValue]

\* Writer::Put(Token, intN_t / uintN_t, default): the 8 bit types go through
\* uint8_t without sign handling
PutInt(w, token, value, defaultValue, signed) ==
  PutNumber(w, token, value, defaultValue, signed /\ Len(value) > 1)

\* Writer::Put(Token, bool, bool)
PutBool(w, token, value, defaultValue) ==
  PutInt(w, token, <<IF value THEN 1 ELSE 0>>, <<IF defaultValue THEN 1 ELSE 0>>, FALSE)

\* Writer::Put(Token, T value, T defaultValue) for an enum T: the put of its
\* underlying integer type
PutEnum(w, token, value, defaultValue, signed) ==
  PutInt(w, token, value, defaultValue, signed)

\* Writer::TrimDefault scope around one operation: the flag as it was before
RestoreTrim(w, old) == [w EXCEPT !.trimDefaults = old.trimDefaults]

\* Writer::Put(Token, const char*, const char*): a string is its bytes, the
\* null pointer and the empty string behave alike
PutString(w, token, str, defaultValue) ==
  IF \/ ~w.trimDefaults
     \/ IF defaultValue # <<>> THEN str = <<>> \/ str # defaultValue ELSE str # <<>>
  THEN IF str = <<>>
       THEN [RestoreTrim(
               PutData([w EXCEPT !.trimDefaults = FALSE], token, <<>>, FALSE, FALSE), w)
             EXCEPT !.nextToken = InvalidTokenValue]
       ELSE [PutData(w, token, str, FALSE, FALSE) EXCEPT !.nextToken = InvalidTokenValue]
  ELSE [w EXCEPT !.nextToken = InvalidTokenValue]

\* MemoryWriter(const Writer&): a fresh sink that inherits trimDefaults
NewSubWriter(w) == NewWriter(w.trimDefaults)

\* mutant: the length written is one more than the bytes copied
MutPutStreamLongLength(w, token, bytes) ==
  IF w.badStream THEN w
  ELSE VerifiedWrite(PutDataHeader(w, token, FromNat(Len(bytes) + 1)), bytes)

\* Writer::Put(Token, std::istream&): the header and a copy of the bytes
PutStream(w, token, bytes) ==
  IF w.badStream THEN w
  ELSE IF Len(bytes) > 0
       THEN VerifiedWrite(PutDataHeader(w, token, FromNat(Len(bytes))), bytes)
       ELSE PutDataHeader(w, token, Zero64)

\* Writer::operator<<(uint8_t): Put(m_nextToken, value)
StreamUByte(w, value) == PutInt(w, w.nextToken, value, <<0>>, FALSE)

\* Serializable::Write of a record with the token map {0 -> a, 1 -> b}, two
\* uint8_t members streamed without a declared default
RecordWrite(w, rec) ==
  StreamUByte(PutToken(StreamUByte(PutToken(w, FromNat(0)), rec.a), FromNat(1)), rec.b)

\* Writer::operator<<(uint16_t): Put(m_nextToken, value, 0)
StreamUWord(w, value) == PutInt(w, w.nextToken, value, <<0, 0>>, FALSE)

\* Serializable::Write of a Date with the token map {0 -> day, 1 -> month,
\* 2 -> year}, two uint8_t members and a uint16_t
DateWrite(w, date) ==
  StreamUWord(
    PutToken(StreamUByte(PutToken(StreamUByte(PutToken(w, FromNat(0)), date.day),
                                  FromNat(1)),
                         date.month),
             FromNat(2)),
    date.year)

\* mutant: the stub of an empty object is not kept
MutPutSerializableNoStub(w, token, rec, keepStubOnEmpty) ==
  PutStream(w, token,
            (IF "year" \in DOMAIN rec THEN DateWrite(NewSubWriter(w), rec)
             ELSE RecordWrite(NewSubWriter(w), rec)).stream)

\* Writer::Put(Token, const Serializable&, bool keepStubOnEmpty): object.Write
\* is the Write of the object's class
PutSerializable(w, token, rec, keepStubOnEmpty) ==
  RestoreTrim(
    PutStream([w EXCEPT !.trimDefaults = @ /\ ~keepStubOnEmpty], token,
              (IF "year" \in DOMAIN rec THEN DateWrite(NewSubWriter(w), rec)
               ELSE RecordWrite(NewSubWriter(w), rec)).stream),
    w)

\* Writer::Put(Token, const std::pair<uint8_t, uint8_t>&, bool keepStubOnEmpty)
PutPair(w, token, pair, keepStubOnEmpty) ==
  RestoreTrim(
    PutStream([w EXCEPT !.trimDefaults = @ /\ ~keepStubOnEmpty], token,
              PutInt(PutInt(NewWriter(w.trimDefaults), FromNat(0), pair[1], <<0>>, FALSE),
                     FromNat(1), pair[2], <<0>>, FALSE).stream),
    w)

RECURSIVE GenericWrite(_, _)
\* Writer::Put(Token, const Serializable&, bool keepStubOnEmpty) of a Generic:
\* object.Write is Generic::Write
PutGeneric(w, token, members, keepStubOnEmpty) ==
  RestoreTrim(
    PutStream([w EXCEPT !.trimDefaults = @ /\ ~keepStubOnEmpty], token,
              GenericWrite(NewSubWriter(w), members).stream),
    w)

\* Put(token, i) or Put(token, i, true) of one container item of a kind:
\* uint8_t, int32_t, std::string, a record, a pair, a Generic
PutItem(w, token, item, kind) ==
  CASE kind = "u8" -> PutInt(w, token, item, <<0>>, FALSE)
    [] kind = "i32" -> PutInt(w, token, item, Zeros(4), TRUE)
    [] kind = "str" -> PutString(w, token, item, <<>>)
    [] kind = "rec" -> PutSerializable(w, token, item, TRUE)
    [] kind = "pair" -> PutPair(w, token, item, FALSE)
    [] kind = "gen" -> PutGeneric(w, token, item, TRUE)

\* mutant: the list prefix is written without the element count
MutPutContainerElementCountNoCount(w, token, size) ==
  IF w.badStream \/ size < 2 THEN w
  ELSE VerifiedWrite([w EXCEPT !.containerToken = token,
                               !.containerElementCount = FromNat(size),
                               !.containerElementIndex = Zero64],
                     <<248>>)

\* mutant: the list prefix is written for one item as well
MutPutContainerElementCountForOne(w, token, size) ==
  IF w.badStream \/ size < 1 THEN w
  ELSE WriteLengthEncoded(
         VerifiedWrite([w EXCEPT !.containerToken = token,
                                 !.containerElementCount = FromNat(size),
                                 !.containerElementIndex = Zero64],
                       <<248>>),
         FromNat(size))

\* Writer::PutContainerElementCount
PutContainerElementCount(w, token, size) ==
  IF w.badStream \/ size < 2 THEN w
  ELSE WriteLengthEncoded(
         VerifiedWrite([w EXCEPT !.containerToken = token,
                                 !.containerElementCount = FromNat(size),
                                 !.containerElementIndex = Zero64],
                       <<248>>),
         FromNat(size))

RECURSIVE PutItems(_, _, _, _)
\* for (const auto& i : items) Put(token, i)
PutItems(w, token, items, kind) ==
  IF items = <<>> THEN w
  ELSE PutItems(PutItem(w, token, Head(items), kind), token, Tail(items), kind)

\* Writer::PutContainer: records and Generics have a custom writer, the other
\* kinds are written with trimDefaults switched off
PutContainer(w, token, items, kind) ==
  IF Len(items) > 0
  THEN [RestoreTrim(
          PutItems(
            PutContainerElementCount(
              [w EXCEPT !.trimDefaults = IF kind \in {"rec", "gen"} THEN @ ELSE FALSE],
              token, Len(items)),
            token, items, kind),
          w)
        EXCEPT !.nextToken = InvalidTokenValue]
  ELSE IF ~w.trimDefaults
       THEN [PutData(w, token, <<>>, FALSE, FALSE) EXCEPT !.nextToken = InvalidTokenValue]
       ELSE [w EXCEPT !.nextToken = InvalidTokenValue]

\* a member of a Generic: Add(tok, value) or Add(tok, value, defaultValue) of
\* a value of a kind; of is the kind of the items of a vector
Member(tok, kind, value, of, defaultValue) ==
  [tok |-> tok, kind |-> kind, v |-> value, of |-> of, d |-> defaultValue]

\* Generic::Member<T>::Put and Generic::MemberWithDefault<T>::Put
MemberPut(w, mb) ==
  CASE mb.kind = "u8" -> PutInt(w, FromNat(mb.tok), mb.v, <<0>>, FALSE)
    [] mb.kind = "u16" -> PutInt(w, FromNat(mb.tok), mb.v, <<0, 0>>, FALSE)
    [] mb.kind = "u8d" -> PutInt(w, FromNat(mb.tok), mb.v, mb.d, FALSE)
    [] mb.kind = "str" -> PutString(w, FromNat(mb.tok), mb.v, <<>>)
    [] mb.kind = "gen" -> PutGeneric(w, FromNat(mb.tok), mb.v, FALSE)
    [] mb.kind = "vec" -> PutContainer(w, FromNat(mb.tok), mb.v, mb.of)

\* Generic::Write: members are the entries of m_members as the map iterates
\* them
GenericWrite(w, members) ==
  IF members = <<>> THEN w
  ELSE GenericWrite(MemberPut(w, members[1]), Tail(members))

---------------------------------------------------------------------------
(* Reader *)

\* Reader::SubStreamContext
NewContext(end) ==
  [containerToken |-> InvalidTokenValue, containerElementCount |-> Zero64,
   containerElementIndex |-> Zero64, containerElementEnd |-> Zero64, end |-> end]

\* Reader::Reader over the bytes of a stream positioned at its start.
\* streamFail is the failbit of the std::istream: once set every read yields
\* no bytes.  The stream's read position equals offset while it is clear.
NewReader(bytes) ==
  [stream |-> bytes, streamFail |-> FALSE, offset |-> Zero64,
   remainingInElement |-> Zero64, nextContainerElementCount |-> Zero64,
   lastToken |-> InvalidTokenValue, context |-> NewContext(FromNat(Len(bytes))),
   tokenPushed |-> FALSE, badStream |-> FALSE]

\* Reader::EOS
EOS(r) == r.badStream \/ (~Less64(r.offset, r.context.end) /\ ~r.tokenPushed)

\* Reader::PastEOS
PastEOS(r, n) == r.context.end # Zero64 /\ Less64(r.context.end, Add64(r.offset, n))

\* the failing branch of VERIFY_TOKENSTREAM
FailVerify(r) == [r EXCEPT !.lastToken = InvalidTokenValue, !.badStream = TRUE]

\* the bytes m_stream.read(byte_count) delivers at the current position
Available(r, count) ==
  IF r.streamFail \/ ~IsSmall(r.offset) \/ ~IsSmall(count) THEN <<>>
  ELSE Slice(r.stream, ToNat(r.offset), ToNat(count))

\* VERIFIED_READ: the reader after the read (the offset is moved by the caller)
VerifiedRead(r, count) ==
  IF Len(Available(r, count)) # (IF IsSmall(count) THEN ToNat(count) ELSE -1)
  THEN [r EXCEPT !.lastToken = InvalidTokenValue, !.badStream = TRUE, !.streamFail = TRUE]
  ELSE r

\* Reader::Fetch: <<reader after, bytes stored at the destination>>
Fetch(r) ==
  IF r.remainingInElement = Zero64 THEN <<r, <<>>>>
  ELSE <<[VerifiedRead(r, r.remainingInElement)
          EXCEPT !.offset = Add64(r.offset, r.remainingInElement),
                 !.remainingInElement = Zero64],
         Available(r, r.remainingInElement)>>

\* the sign test of Reader::FetchPartial<T>: the first byte at dest.  With an
\* empty payload dest points one past the result: oob is the byte found there.
Negative(r, got, oob) ==
  (IF r.remainingInElement = Zero64 THEN oob
   ELSE IF Len(got) > 0 THEN got[1] ELSE 0) >= 128

\* Reader::FetchPartial<T> after its Fetch f: the payload is extended on the
\* left to size bytes
Extend(r, f, size, signExtend, oob) ==
  IF f[1].badStream THEN <<f[1], Zeros(size)>>
  ELSE IF signExtend /\ size > Len(f[2]) /\ Negative(r, f[2], oob)
       THEN <<f[1], [i \in 1..(size - Len(f[2])) |-> 255] \o f[2]>>
       ELSE <<f[1], Zeros(size - Len(f[2])) \o f[2]>>

\* FetchPartial without the sign extension of a short payload
MutFetchPartialZeroFill(r, size, signExtend, oob) ==
  IF Less64(FromNat(size), r.remainingInElement)
  THEN <<FailVerify(r), Zeros(size)>>
  ELSE Extend(r, Fetch(r), size, FALSE, oob)

\* Reader::FetchPartial<T> for a T of size bytes: <<reader after, the size
\* big-endian bytes of the result>>
FetchPartial(r, size, signExtend, oob) ==
  IF Less64(FromNat(size), r.remainingInElement)
  THEN <<FailVerify(r), Zeros(size)>>
  ELSE Extend(r, Fetch(r), size, signExtend, oob)

\* Reader::ReadLengthEncoded, lead byte 0xf9 and above: r has the byte count
\* in remainingInElement
ReadWide(r) ==
  IF PastEOS(r, r.remainingInElement) THEN <<FailVerify(r), Zero64>>
  ELSE FetchPartial(r, 8, FALSE, 0)

\* Reader::ReadLengthEncoded, lead byte v in 0x80..0xf7: r1 is the reader
\* after the read of the second byte, low
ReadWord(r, r1, v, low) ==
  IF r1.badStream THEN <<r1, Zero64>>
  ELSE <<[r1 EXCEPT !.offset = Add64(r.offset, One64)],
         FromNat((v % 128) * 256 + low[1])>>

\* m_nextContainerElementCount = DecodeLength() with n the result of the decode
StoreCount(n) == [n[1] EXCEPT !.nextContainerElementCount = n[2]]

RECURSIVE ReadLengthEncoded(_, _)
\* mutant: 0xF8 is taken as the list escape in a length as well
MutReadLeadEscapeInLength(r, v, forToken) ==
  IF v = 248
  THEN ReadLengthEncoded(StoreCount(ReadLengthEncoded(r, FALSE)), TRUE)
  ELSE IF v < 128 THEN <<r, FromNat(v)>>
  ELSE IF v < 248
  THEN IF PastEOS(r, One64) THEN <<FailVerify(r), Zero64>>
       ELSE ReadWord(r, VerifiedRead(r, One64), v, Available(r, One64))
  ELSE ReadWide([r EXCEPT !.remainingInElement = FromNat(v - 247)])

\* Reader::ReadLengthEncoded from the lead byte v on
ReadLead(r, v, forToken) ==
  IF v = 248
  THEN IF ~forToken THEN <<[r EXCEPT !.badStream = TRUE], Zero64>>
       ELSE ReadLengthEncoded(StoreCount(ReadLengthEncoded(r, FALSE)), TRUE)
  ELSE IF v < 128 THEN <<r, FromNat(v)>>
  ELSE IF v < 248
  THEN IF PastEOS(r, One64) THEN <<FailVerify(r), Zero64>>
       ELSE ReadWord(r, VerifiedRead(r, One64), v, Available(r, One64))
  ELSE ReadWide([r EXCEPT !.remainingInElement = FromNat(v - 247)])

\* Reader::ReadLengthEncoded after the read of the lead byte: r1 is the
\* reader after the read, got the bytes read
ReadFirst(r, r1, got, forToken) ==
  IF r1.badStream THEN <<r1, Zero64>>
  ELSE ReadLead([r1 EXCEPT !.offset = Add64(r.offset, One64)], got[1], forToken)

\* Reader::ReadLengthEncoded: <<reader after, value>>
ReadLengthEncoded(r, forToken) ==
  IF PastEOS(r, One64) THEN <<FailVerify(r), Zero64>>
  ELSE IF r.badStream THEN <<r, Zero64>>
  ELSE ReadFirst(r, VerifiedRead(r, One64), Available(r, One64), forToken)

\* Reader::DecodeToken
DecodeToken(r) == ReadLengthEncoded(r, TRUE)

\* Reader::DecodeLength
DecodeLength(r) == ReadLengthEncoded(r, FALSE)

\* mutant: the skip clears the payload count and does not move
MutSkipBytesNoSeek(r, bytes) ==
  [r EXCEPT !.tokenPushed = FALSE, !.remainingInElement = Zero64]

\* Reader::SkipBytes.  seekg to a place outside the stream sets the failbit.
SkipBytes(r, bytes) ==
  IF r.badStream \/ bytes = Zero64
  THEN [r EXCEPT !.tokenPushed = FALSE, !.remainingInElement = Zero64]
  ELSE [r EXCEPT !.tokenPushed = FALSE, !.remainingInElement = Zero64,
                 !.offset = Add64(r.offset, bytes),
                 !.streamFail = @ \/ Less64(FromNat(Len(r.stream)), Add64(r.offset, bytes))]

\* mutant: the payload is not skipped
MutSkipStay(r) == [r EXCEPT !.tokenPushed = FALSE, !.remainingInElement = Zero64]

\* Reader::Skip
Skip(r) == SkipBytes(r, r.remainingInElement)

\* Reader::PushLastToken
PushLastToken(r) == [r EXCEPT !.tokenPushed = TRUE]

\* m_remainingInElement = DecodeLength() with d the result of the decode
StoreLength(d) == [d[1] EXCEPT !.remainingInElement = d[2]]

\* the end of Reader::GetToken, from the second test of m_badStream on
GetTokenChecked(r) ==
  IF r.badStream THEN <<r, InvalidTokenValue>>
  ELSE IF PastEOS(r, r.remainingInElement)
       THEN <<FailVerify(r), InvalidTokenValue>>
       ELSE <<r, r.lastToken>>

\* Reader::GetToken: the end marker of a container item
GetTokenMarked(r, updateContainerElementEnd) ==
  IF updateContainerElementEnd
  THEN [r EXCEPT !.context.containerElementEnd = Add64(r.offset, r.remainingInElement)]
  ELSE r

\* the tail of Reader::GetToken, from the test of m_badStream that follows the
\* token on: <<reader after, token returned>>
GetTokenLength(r, updateContainerElementEnd) ==
  IF r.badStream THEN <<[r EXCEPT !.lastToken = InvalidTokenValue], InvalidTokenValue>>
  ELSE GetTokenChecked(GetTokenMarked(StoreLength(DecodeLength(r)), updateContainerElementEnd))

\* mutant: the container tracking is not cleared at the last item
MutGetTokenElementNeverLast(r, idx, last) ==
  GetTokenLength(
    [r EXCEPT !.lastToken = r.context.containerToken,
              !.context.containerElementIndex = idx],
    TRUE)

\* Reader::GetToken at the end of a container item: the stored token is the
\* token, idx the incremented index, last whether the container ends here
GetTokenElement(r, idx, last) ==
  GetTokenLength(
    [r EXCEPT !.lastToken = r.context.containerToken,
              !.context.containerElementIndex = IF last THEN Zero64 ELSE idx,
              !.context.containerElementCount = IF last THEN Zero64 ELSE @,
              !.context.containerElementEnd = IF last THEN Zero64 ELSE @,
              !.context.containerToken = IF last THEN InvalidTokenValue ELSE @],
    ~last)

\* Reader::GetToken after a decoded token: a count above 1 begins a container
GetTokenBegan(r) ==
  GetTokenLength(
    IF Less64(One64, r.nextContainerElementCount)
    THEN [r EXCEPT !.context.containerToken = r.lastToken,
                   !.context.containerElementCount = r.nextContainerElementCount,
                   !.context.containerElementIndex = One64]
    ELSE r,
    Less64(One64, r.nextContainerElementCount))

\* m_lastToken = Token(DecodeToken()) with d the result of the decode
StoreToken(d) == [d[1] EXCEPT !.lastToken = d[2]]

\* the middle of Reader::GetToken once m_nextContainerElementCount is cleared
GetTokenCleared(r) ==
  IF r.context.containerElementEnd # Zero64
     /\ r.context.containerElementEnd = r.offset
  THEN IF PastEOS(r, One64) THEN <<FailVerify(r), InvalidTokenValue>>
       ELSE GetTokenElement(r, Add64(r.context.containerElementIndex, One64),
                            Add64(r.context.containerElementIndex, One64)
                              = r.context.containerElementCount)
  ELSE IF PastEOS(r, FromNat(2)) THEN <<FailVerify(r), InvalidTokenValue>>
       ELSE GetTokenBegan(StoreToken(DecodeToken(r)))

\* the middle of Reader::GetToken: the token is the container's stored one
\* or is decoded from the stream
GetTokenFresh(r) == GetTokenCleared([r EXCEPT !.nextContainerElementCount = Zero64])

\* Reader::GetToken after the Skip of the unread payload, if there was one
GetTokenSkipped(r, skipped) ==
  IF skipped /\ EOS(r) THEN <<r, InvalidTokenValue>> ELSE GetTokenFresh(r)

\* mutant: the element count is cleared when the pushed token is handed out
MutGetTokenPushedClears(r) ==
  IF r.badStream THEN <<r, InvalidTokenValue>>
  ELSE IF r.tokenPushed
       THEN <<[r EXCEPT !.tokenPushed = FALSE, !.nextContainerElementCount = Zero64],
              r.lastToken>>
  ELSE GetTokenSkipped(IF r.remainingInElement # Zero64 THEN Skip(r) ELSE r,
                       r.remainingInElement # Zero64)

\* Reader::GetToken: <<reader after, token returned>>
GetToken(r) ==
  IF r.badStream THEN <<r, InvalidTokenValue>>
  ELSE IF r.tokenPushed THEN <<[r EXCEPT !.tokenPushed = FALSE], r.lastToken>>
  ELSE GetTokenSkipped(IF r.remainingInElement # Zero64 THEN Skip(r) ELSE r,
                       r.remainingInElement # Zero64)

\* Reader::SubStream::SubStream: <<reader after, the context the scope saved>>
SubStreamOpen(r) ==
  <<[r EXCEPT !.context = NewContext(Add64(r.offset, r.remainingInElement)),
              !.remainingInElement = Zero64],
    r.context>>

\* mutant: the scope closes at its declared end even when an error is latched
MutSubStreamCloseAtEnd(r, oldContext) ==
  [r EXCEPT !.tokenPushed = FALSE, !.remainingInElement = Zero64,
            !.offset = r.context.end, !.context = oldContext]

\* mutant: the close of the scope clears the error
MutSubStreamCloseRecover(r, oldContext) ==
  [SkipBytes(r, Sub64(r.context.end, r.offset))
   EXCEPT !.context = oldContext, !.badStream = FALSE]

\* mutant: the close of the scope leaves the scope's own context in place
MutSubStreamCloseKeepsContext(r, oldContext) ==
  SkipBytes(r, Sub64(r.context.end, r.offset))

\* Reader::SubStream::~SubStream
SubStreamClose(r, oldContext) ==
  [SkipBytes(r, Sub64(r.context.end, r.offset)) EXCEPT !.context = oldContext]

\* the byte Reader::GetUByte returns after its Fetch f.  t is not
\* initialised: with an empty payload the result is whatever the stack held.
FetchedByte(f, uninit) == <<f[1], <<IF Len(f[2]) > 0 THEN f[2][1] ELSE uninit>>>>

\* Reader::GetUByte / Reader::GetByte: <<reader after, the byte returned>>
GetUByte(r, uninit) == FetchedByte(Fetch(r), uninit)

\* Reader::GetUWord .. Reader::GetLongLong and the 8 bit gets, by width
GetInt(r, width, signed, uninit) ==
  IF width = 1 THEN GetUByte(r, uninit) ELSE FetchPartial(r, width, signed, uninit)

\* GetUByte() == 1 with g the result of the get
IsOne(g) == <<g[1], g[2] = <<1>>>>

\* Reader::GetBool
GetBool(r, uninit) == IsOne(GetUByte(r, uninit))

\* rhs.resize(0) if the Fetch f of a string failed
FetchedString(f) == IF f[1].badStream THEN <<f[1], <<>>>> ELSE f

\* Reader::operator>>(std::string&)
GetString(r) ==
  IF r.remainingInElement # Zero64 THEN FetchedString(Fetch(r)) ELSE <<r, <<>>>>

\* the end of a SubStream scope around a read x: <<reader after, value>>
ScopeClose(x, oldContext) == <<SubStreamClose(x[1], oldContext), x[2]>>

\* the head of Reader::GetSerializable and of Reader::GetPair: at offset 0 the
\* stream begins with the length of the object
ObjectLength(r) == IF r.offset = Zero64 THEN StoreLength(DecodeLength(r)) ELSE r

\* a default constructed record
NewRecord == [a |-> <<0>>, b |-> <<0>>]

RECURSIVE SerializableRead(_, _, _)
\* Serializable::Read: reader >> member with g the result of the get
RecordStore(g, rec, member, uninit) ==
  SerializableRead(g[1], [rec EXCEPT ![member] = g[2]], uninit)

\* the body of the loop of Serializable::Read with the token map
\* {0 -> a, 1 -> b}: g is the result of GetToken
RecordMember(g, rec, uninit) ==
  IF g[2] = FromNat(0) THEN RecordStore(GetUByte(g[1], uninit), rec, "a", uninit)
  ELSE IF g[2] = FromNat(1) THEN RecordStore(GetUByte(g[1], uninit), rec, "b", uninit)
  ELSE SerializableRead(g[1], rec, uninit)

\* Serializable::Read: <<reader after, record after>>
SerializableRead(r, rec, uninit) ==
  IF EOS(r) THEN <<r, rec>> ELSE RecordMember(GetToken(r), rec, uninit)

\* Reader::GetSerializable from the SubStream on: o is the opened scope
RecordScope(o, rec, uninit) == ScopeClose(SerializableRead(o[1], rec, uninit), o[2])

\* Reader::GetSerializable after its head
RecordObject(r, atStart, rec, uninit) ==
  IF atStart /\ r.badStream THEN <<r, rec>>
  ELSE RecordScope(SubStreamOpen(r), rec, uninit)

\* Reader::GetSerializable: <<reader after, record after>>
GetSerializable(r, rec, uninit) ==
  RecordObject(ObjectLength(r), r.offset = Zero64, rec, uninit)

RECURSIVE PairRead(_, _, _)
\* Reader::GetPair: reader >> pair.first or pair.second with g the result
PairStore(g, pair, member, uninit) ==
  PairRead(g[1], [pair EXCEPT ![member] = g[2]], uninit)

\* the body of the loop of Reader::GetPair: g is the result of GetToken
PairMember(g, pair, uninit) ==
  IF g[2] = FromNat(0) THEN PairStore(GetUByte(g[1], uninit), pair, 1, uninit)
  ELSE IF g[2] = FromNat(1) THEN PairStore(GetUByte(g[1], uninit), pair, 2, uninit)
  ELSE PairRead(g[1], pair, uninit)

\* the loop of Reader::GetPair for a std::pair<uint8_t, uint8_t>
PairRead(r, pair, uninit) ==
  IF EOS(r) THEN <<r, pair>> ELSE PairMember(GetToken(r), pair, uninit)

\* Reader::GetPair from the SubStream on: o is the opened scope
PairScope(o, pair, uninit) == ScopeClose(PairRead(o[1], pair, uninit), o[2])

\* Reader::GetPair after its head
PairObject(r, atStart, pair, uninit) ==
  IF atStart /\ r.badStream THEN <<r, pair>>
  ELSE PairScope(SubStreamOpen(r), pair, uninit)

\* Reader::GetPair: <<reader after, pair after>>
GetPair(r, pair, uninit) ==
  PairObject(ObjectLength(r), r.offset = Zero64, pair, uninit)

\* *this >> item for a value constructed item of a kind
GetItem(r, kind, uninit) ==
  CASE kind = "u8" -> GetUByte(r, uninit)
    [] kind = "i32" -> GetInt(r, 4, TRUE, uninit)
    [] kind = "str" -> GetString(r)
    [] kind = "rec" -> GetSerializable(r, NewRecord, uninit)
    [] kind = "pair" -> GetPair(r, <<<<0>>, <<0>>>>, uninit)

RECURSIVE GetContainerLoop(_, _, _, _, _)
\* the while of Reader::GetContainer: g is the result of GetToken
ContainerAgain(g, vec, containerToken, kind, uninit) ==
  IF g[2] = containerToken
  THEN GetContainerLoop(g[1], vec, containerToken, kind, uninit)
  ELSE <<PushLastToken(g[1]), vec>>

\* Reader::GetContainer after *this >> item: i is the result of the get
ContainerItem(i, vec, containerToken, kind, uninit) ==
  IF EOS(i[1]) THEN <<i[1], Append(vec, i[2])>>
  ELSE ContainerAgain(GetToken(i[1]), Append(vec, i[2]), containerToken, kind, uninit)

\* the do-while of Reader::GetContainer: <<reader after, vec after>>
GetContainerLoop(r, vec, containerToken, kind, uninit) ==
  ContainerItem(GetItem(r, kind, uninit), vec, containerToken, kind, uninit)

\* Reader::GetContainer for a std::vector
GetContainer(r, vec, kind, uninit) == GetContainerLoop(r, vec, r.lastToken, kind, uninit)

---------------------------------------------------------------------------
(* Length encoding round trip: WriteLengthEncoded, then ReadLengthEncoded *)

\* 64-bit values of every significant length: n significant bytes, the first
\* one b1 and the others b2
PatternValues ==
  {[i \in 1..8 |-> IF i < 9 - n THEN 0 ELSE IF i = 9 - n THEN b1 ELSE b2] :
     n \in 1..8, b1 \in SampleBytes, b2 \in SampleBytes}

\* the values FORMAT.md names and the ends of the three ranges
NamedValues ==
  {FromNat(0), FromNat(127), FromNat(128), FromNat(248), FromNat(16391), FromNat(30719),
   FromNat(30720), FromNat(65535), FromNat(327680)}

VarintValues == PatternValues \cup NamedValues

NoOut == [token |-> InvalidTokenValue, value |-> <<>>, bad |-> FALSE]

InitVarint ==
  /\ inp \in [v : VarintValues, forToken : BOOLEAN]
  /\ writer = NewWriter(TRUE)
  /\ reader = NewReader(<<>>)
  /\ scopes = <<>>
  /\ pc = "encode"
  /\ out = NoOut

\* Writer::WriteLengthEncoded(v) on a fresh sink; a Reader is made on the bytes
VarintEncode ==
  /\ pc = "encode"
  /\ writer' = WriteLengthEncoded(writer, inp.v)
  /\ reader' = NewReader(writer'.stream)
  /\ pc' = "decode"
  /\ UNCHANGED <<scopes, inp, out>>

\* Reader::DecodeToken or Reader::DecodeLength on those bytes
VarintDecode ==
  /\ pc = "decode"
  /\ \E d \in {ReadLengthEncoded(reader, inp.forToken)} :
         /\ reader' = d[1]
         /\ out' = [NoOut EXCEPT !.value = d[2], !.bad = d[1].badStream]
  /\ pc' = "done"
  /\ UNCHANGED <<writer, scopes, inp>>

NextVarint == VarintEncode \/ VarintDecode

SpecVarint == InitVarint /\ [][NextVarint]_vars

\* C7: for every 64-bit value v, decoding the bytes WriteLengthEncoded(v)
\* wrote, as a token or as a length, returns v, without an error, and leaves
\* the offset at the number of bytes written.
C7_LengthEncodingRoundTrip ==
  pc = "done" =>
    /\ out.value = inp.v
    /\ ~out.bad
    /\ reader.offset = FromNat(Len(writer.stream))

\* a value of eight significant bytes went through the round trip as a token
C7_Witness == pc = "done" /\ inp.forToken /\ Len(writer.stream) = 9 /\ out.value = inp.v

\* the bytes of v from its first non-zero byte on
SignificantBytes(v) ==
  LET k == CHOOSE i \in 1..8 : v[i] # 0 /\ \A j \in 1..(i - 1) : v[j] = 0
  IN  SubSeq(v, k, 8)

\* the encoding FORMAT.md describes
DocumentedEncoding(v) ==
  IF IsSmall(v) /\ ToNat(v) < 128 THEN <<ToNat(v)>>
  ELSE IF IsSmall(v) /\ ToNat(v) < 30720
       THEN <<(32768 + ToNat(v)) \div 256, (32768 + ToNat(v)) % 256>>
       ELSE <<247 + Len(SignificantBytes(v))>> \o SignificantBytes(v)

\* C8: WriteLengthEncoded(v) writes one byte below 0x80, the two bytes of
\* 0x8000 | v below 0x7800, and otherwise 0xF7 + n and the n significant
\* bytes; 0x4007 is C0 07 and 0x50000 is FA 05 00 00.
C8_LengthEncodingBytes ==
  pc # "encode" =>
    /\ writer.stream = DocumentedEncoding(inp.v)
    /\ (inp.v = FromNat(16391) => writer.stream = <<192, 7>>)
    /\ (inp.v = FromNat(327680) => writer.stream = <<250, 5, 0, 0>>)

\* 0x50000 was written, in the prefixed form
C8_Witness == pc = "decode" /\ inp.v = FromNat(327680) /\ writer.stream[1] = 250

---------------------------------------------------------------------------
(* One field put by a Writer and read back by the record read loop *)

\* integers of w bytes: k-1 sign or zero bytes, then b1, then b2 repeated
IntValues(w) ==
  {[i \in 1..w |-> IF i < k THEN lead ELSE IF i = k THEN b1 ELSE b2] :
     k \in 1..w, lead \in {0, 255}, b1 \in SampleBytes, b2 \in SampleBytes}

\* the characters of "Joe Smith"
JoeSmith == <<74, 111, 101, 32, 83, 109, 105, 116, 104>>

\* "A", "AB", "B", "Joe Smith" and the empty string
StringValues == {<<>>, <<65>>, <<65, 66>>, <<66>>, JoeSmith}

\* the value of the destination before the read
PreRead == <<256>>

IntInputs(w) ==
  {[kind |-> "int", width |-> w, signed |-> sg, v |-> v,
    d |-> IF same THEN v ELSE Zeros(w), t |-> t, trim |-> tr, direct |-> dr] :
     sg \in BOOLEAN, v \in IntValues(w), same \in BOOLEAN,
     t \in SampleTokens, tr \in BOOLEAN, dr \in BOOLEAN}

EnumInputs ==
  {[kind |-> "enum", width |-> 4, signed |-> TRUE, v |-> v, d |-> d, t |-> t,
    trim |-> tr, direct |-> dr] :
     v \in {FromNat(n) : n \in 0..2}, d \in {FromNat(n) : n \in 0..2},
     t \in SampleTokens, tr \in BOOLEAN, dr \in BOOLEAN}

BoolInputs ==
  {[kind |-> "bool", width |-> 1, signed |-> FALSE, v |-> v, d |-> d, t |-> t,
    trim |-> tr, direct |-> dr] :
     v \in BOOLEAN, d \in BOOLEAN, t \in SampleTokens, tr \in BOOLEAN, dr \in BOOLEAN}

StringInputs ==
  {[kind |-> "str", width |-> 0, signed |-> FALSE, v |-> v, d |-> d, t |-> t,
    trim |-> tr, direct |-> dr] :
     v \in StringValues, d \in StringValues, t \in SampleTokens, tr \in BOOLEAN,
     dr \in BOOLEAN}

NoRead ==
  [tokens |-> <<>>, value |-> PreRead, dispatched |-> FALSE, empty |-> FALSE,
   moved |-> FALSE, wide |-> FALSE, stored |-> 0]

InitScalar ==
  /\ \/ \E w \in {1, 2, 4, 8} : inp \in IntInputs(w)
     \/ inp \in EnumInputs
     \/ inp \in BoolInputs
     \/ inp \in StringInputs
  /\ writer = NewWriter(inp.trim)
  /\ reader = NewReader(<<>>)
  /\ scopes = <<>>
  /\ pc = "start"
  /\ out = NoRead

\* the Put overload of the field's type
PutField(w, token) ==
  CASE inp.kind = "int" -> PutInt(w, token, inp.v, inp.d, inp.signed)
    [] inp.kind = "enum" ->
         PutEnum(w, token, SubSeq(inp.v, 5, 8), SubSeq(inp.d, 5, 8), inp.signed)
    [] inp.kind = "bool" -> PutBool(w, token, inp.v, inp.d)
    [] inp.kind = "str" -> PutString(w, token, inp.v, inp.d)

\* Reader::operator>>(enum&): static_cast<T>(GetLong()) or GetULong(), kept
\* as the 4 bytes of the underlying value in 8
EnumOf(g) == <<g[1], Zeros(4) \o g[2]>>

\* the bytes the get of a field of width bytes stores at its destination:
\* GetByte and GetUByte pass &t to Fetch, which reads m_remainingInElement
\* bytes into it; FetchPartial<T> verifies m_remainingInElement <= sizeof(T)
\* before its Fetch
StoredBytes(r, width) ==
  IF width > 1 /\ Less64(FromNat(width), r.remainingInElement) THEN 0
  ELSE Len(Fetch(r)[2])

\* the operator>> of the field's type
GetField(r, uninit) ==
  CASE inp.kind = "int" -> GetInt(r, inp.width, inp.signed, uninit)
    [] inp.kind = "enum" ->
         EnumOf(GetInt(r, 4, inp.signed, uninit))
    [] inp.kind = "bool" -> GetBool(r, uninit)
    [] inp.kind = "str" -> GetString(r)

\* writer.Put(t, v, d)
ScalarPut ==
  /\ pc = "start" /\ inp.direct
  /\ writer' = PutField(writer, inp.t)
  /\ pc' = "open"
  /\ UNCHANGED <<reader, scopes, inp, out>>

\* writer.Put(t, block, 0): a chunk without payload instead of the field
ScalarPutEmpty ==
  /\ pc = "start" /\ inp.direct /\ inp.v = inp.d
  /\ writer' = PutData(writer, inp.t, <<>>, FALSE, FALSE)
  /\ out' = [out EXCEPT !.empty = TRUE]
  /\ pc' = "open"
  /\ UNCHANGED <<reader, scopes, inp>>

\* writer.Put(t, block, width + 1): a chunk with one byte more than the
\* field holds, instead of the field
ScalarPutWide ==
  /\ pc = "start" /\ inp.direct /\ inp.v = inp.d /\ inp.kind # "str"
  /\ writer' = PutData(writer, inp.t, [i \in 1..(inp.width + 1) |-> 1], FALSE, FALSE)
  /\ out' = [out EXCEPT !.wide = TRUE]
  /\ pc' = "open"
  /\ UNCHANGED <<reader, scopes, inp>>

\* writer << Token(t)
ScalarPutToken ==
  /\ pc = "start" /\ ~inp.direct
  /\ writer' = PutToken(writer, inp.t)
  /\ pc' = "stream"
  /\ UNCHANGED <<reader, scopes, inp, out>>

\* writer << ValueWithDefault(v, d)
ScalarStream ==
  /\ pc = "stream"
  /\ writer' = PutField(writer, writer.nextToken)
  /\ pc' = "open"
  /\ UNCHANGED <<reader, scopes, inp, out>>

\* Reader reader{writer.GetReader()}
ScalarOpen ==
  /\ pc = "open"
  /\ reader' = NewReader(writer.stream)
  /\ pc' = "read"
  /\ UNCHANGED <<writer, scopes, inp, out>>

\* while (!reader.EOS()) { token = reader.GetToken(); find(token) ...
ScalarGetToken ==
  /\ pc = "read" /\ ~EOS(reader)
  /\ \E g \in {GetToken(reader)} :
         /\ reader' = g[1]
         /\ out' = [out EXCEPT !.tokens = Append(@, g[2])]
         /\ pc' = IF g[2] = inp.t THEN "get" ELSE "read"
  /\ UNCHANGED <<writer, scopes, inp>>

\* ... i->second.Get(reader, *this) }
ScalarGet ==
  /\ pc = "get"
  /\ \E uninit \in {0, 255} :
       \E g \in {GetField(reader, uninit)} :
           /\ reader' = g[1]
           /\ out' = [out EXCEPT !.value = g[2], !.dispatched = TRUE,
                                 !.moved = g[1].offset # reader.offset,
                                 !.stored = StoredBytes(reader, inp.width)]
  /\ pc' = "read"
  /\ UNCHANGED <<writer, scopes, inp>>

\* the loop ends at EOS
ScalarEnd ==
  /\ pc = "read" /\ EOS(reader)
  /\ pc' = IF out.empty THEN "doneEmpty" ELSE IF out.wide THEN "doneWide" ELSE "done"
  /\ UNCHANGED <<writer, reader, scopes, inp, out>>

NextScalar ==
  \/ ScalarPut \/ ScalarPutEmpty \/ ScalarPutWide \/ ScalarPutToken \/ ScalarStream \/ ScalarOpen
  \/ ScalarGetToken \/ ScalarGet \/ ScalarEnd

SpecScalar == InitScalar /\ [][NextScalar]_vars

\* C1: an integer of 8, 16, 32 or 64 bits put under a valid token, with
\* trim_defaults off or with a value other than its default, is read back:
\* GetToken returns the token, the get returns the value, the reader is at the
\* end of the stream and bad_stream is not set.
C1_IntegerRoundTrip ==
  (pc = "done" /\ inp.kind = "int" /\ (~inp.trim \/ inp.v # inp.d)) =>
    /\ out.tokens = <<inp.t>>
    /\ out.dispatched
    /\ out.value = inp.v
    /\ reader.offset = FromNat(Len(writer.stream))
    /\ reader.offset = reader.context.end
    /\ ~reader.badStream

\* a negative 64-bit value went through sign compression and came back
C1_Witness ==
  /\ pc = "done" /\ inp.kind = "int" /\ inp.width = 8 /\ inp.signed
  /\ inp.v[1] = 255 /\ Len(writer.stream) < 8 /\ out.value = inp.v /\ inp.trim

\* a value equal to its declared default, with trim_defaults on
Trimmed ==
  /\ inp.trim /\ ~out.wide
  /\ inp.v = inp.d
  /\ inp.kind = "str" => inp.d # <<>>

\* C3: with trim_defaults on, a put of a value equal to its declared default
\* (integer, bool, enum, string with a non-empty default) writes no byte and
\* leaves the pending token unset; the reader of those bytes never
\* dispatches the token and the destination keeps its value.
C3_DefaultTrimmed ==
  Trimmed =>
    /\ pc \in {"open", "read", "get", "done"} =>
         writer.stream = <<>> /\ writer.nextToken = InvalidTokenValue
    /\ pc = "done" => out.tokens = <<>> /\ ~out.dispatched /\ out.value = PreRead

\* a string equal to its non-empty default was streamed after its token and
\* the read loop ended without a dispatch
C3_Witness ==
  /\ pc = "done" /\ Trimmed /\ inp.kind = "str" /\ ~inp.direct
  /\ writer.stream = <<>> /\ ~out.dispatched

---------------------------------------------------------------------------
(* A container put under a token and read back by the record read loop *)

\* the items a container of a kind is filled from
ItemValues(kind) ==
  CASE kind = "u8" -> {<<0>>, <<1>>, <<2>>, <<3>>}
    [] kind = "i32" -> {Zeros(4), <<255, 255, 255, 128>>, <<18, 52, 86, 120>>}
    [] kind = "str" -> {<<>>, <<65>>, <<65, 66>>}
    [] kind = "rec" -> {NewRecord, [a |-> <<1>>, b |-> <<0>>], [a |-> <<0>>, b |-> <<2>>]}
    [] kind = "pair" -> {<<<<0>>, <<0>>>>, <<<<1>>, <<0>>>>, <<<<7>>, <<9>>>>}

\* the vectors of at most MaxItems items
Vectors(kind) == UNION {[1..n -> ItemValues(kind)] : n \in 0..MaxItems}

\* the tokens of the container member and of the uint8_t member after it
ContainerTokens == {FromNat(32), FromNat(128)}

SiblingToken == FromNat(33)

ContainerInputs(kind) ==
  {[kind |-> kind, items |-> items, t |-> t, trim |-> tr, sibling |-> sb] :
     items \in Vectors(kind), t \in ContainerTokens, tr \in BOOLEAN,
     sb \in BOOLEAN}

InitContainer ==
  /\ \E kind \in {"u8", "i32", "str", "rec", "pair"} : inp \in ContainerInputs(kind)
  /\ writer = NewWriter(inp.trim)
  /\ reader = NewReader(<<>>)
  /\ scopes = <<>>
  /\ pc = "put"
  /\ out = [tokens |-> <<>>, vec |-> <<>>, sibling |-> PreRead]

\* writer.Put(SiblingToken, uint8_t{7})
SiblingPut ==
  /\ pc = "after"
  /\ writer' = PutInt(writer, SiblingToken, <<7>>, <<0>>, FALSE)
  /\ pc' = "open"
  /\ UNCHANGED <<reader, scopes, inp, out>>

\* writer.Put(t, items)
ContainerPut ==
  /\ pc = "put"
  /\ writer' = PutContainer(writer, inp.t, inp.items, inp.kind)
  /\ pc' = IF inp.sibling THEN "after" ELSE "open"
  /\ UNCHANGED <<reader, scopes, inp, out>>

\* Reader reader{writer.GetReader()}
ContainerOpen ==
  /\ pc = "open"
  /\ reader' = NewReader(writer.stream)
  /\ pc' = "read"
  /\ UNCHANGED <<writer, scopes, inp, out>>

\* while (!reader.EOS()) { token = reader.GetToken(); find(token) ...
ContainerGetToken ==
  /\ pc = "read" /\ ~EOS(reader)
  /\ \E g \in {GetToken(reader)} :
         /\ reader' = g[1]
         /\ out' = [out EXCEPT !.tokens = Append(@, g[2])]
         /\ pc' = IF g[2] = inp.t THEN "get"
                  ELSE IF g[2] = SiblingToken THEN "getSibling" ELSE "read"
  /\ UNCHANGED <<writer, scopes, inp>>

\* reader >> vec
ContainerGet ==
  /\ pc = "get"
  /\ \E uninit \in {0, 255} :
       \E g \in {GetContainer(reader, out.vec, inp.kind, uninit)} :
           reader' = g[1] /\ out' = [out EXCEPT !.vec = g[2]]
  /\ pc' = "read"
  /\ UNCHANGED <<writer, scopes, inp>>

\* reader >> sibling
SiblingGet ==
  /\ pc = "getSibling"
  /\ \E uninit \in {0, 255} :
       \E g \in {GetUByte(reader, uninit)} :
           reader' = g[1] /\ out' = [out EXCEPT !.sibling = g[2]]
  /\ pc' = "read"
  /\ UNCHANGED <<writer, scopes, inp>>

\* the loop ends at EOS
ContainerEnd ==
  /\ pc = "read" /\ EOS(reader)
  /\ pc' = "done"
  /\ UNCHANGED <<writer, reader, scopes, inp, out>>

NextContainer ==
  \/ SiblingPut \/ ContainerPut \/ ContainerOpen
  \/ ContainerGetToken \/ ContainerGet \/ SiblingGet \/ ContainerEnd

SpecContainer == InitContainer /\ [][NextContainer]_vars

\* C6: a container of n >= 0 items, with either trim_defaults setting, put
\* under a token and read into an empty container yields the n items, equal
\* to the originals and in their order.
C6_ContainerRoundTrip == pc = "done" => out.vec = inp.items

\* the round trip of a container that is not both empty and written with
\* trim_defaults off
C6_NonEmptyRoundTrip ==
  (pc = "done" /\ (inp.items # <<>> \/ inp.trim)) =>
    /\ out.vec = inp.items
    /\ ~reader.badStream
    /\ inp.sibling => out.sibling = <<7>>

\* a container of three default items came back as three items
C6_Witness ==
  /\ pc = "done" /\ Len(inp.items) = 3 /\ ~inp.trim
  /\ \A i \in 1..3 : inp.items[i] = <<>>
  /\ out.vec = inp.items

\* the container has been put and nothing else
Written == pc = "after" \/ (pc = "open" /\ ~inp.sibling)

\* the payload of a scalar item: the byte of a uint8_t, the sign compressed
\* bytes of an int32_t
DocumentedPayload(item, kind) ==
  IF kind = "u8" THEN item ELSE TrimmedBlock(item, TRUE, TRUE)

RECURSIVE DocumentedItems(_, _)
\* varint(payload length) and the payload, for each item in order
DocumentedItems(items, kind) ==
  IF items = <<>> THEN <<>>
  ELSE DocumentedEncoding(FromNat(Len(DocumentedPayload(Head(items), kind))))
         \o DocumentedPayload(Head(items), kind)
         \o DocumentedItems(Tail(items), kind)

\* C9: a container of n >= 2 scalar items put under token t is written as
\* 0xF8, varint(n), varint(t) and, per item in order, varint(payload length)
\* and the payload; the token appears once.  Token 0x20 with the uint8_t
\* items 1, 2, 3 gives F8 03 20 01 01 01 02 01 03.
C9_ListBytes ==
  (Written /\ Len(inp.items) >= 2 /\ inp.kind \in {"u8", "i32"}) =>
    /\ writer.stream =
         <<248>> \o DocumentedEncoding(FromNat(Len(inp.items)))
                 \o DocumentedEncoding(inp.t)
                 \o DocumentedItems(inp.items, inp.kind)
    /\ (inp.kind = "u8" /\ inp.t = FromNat(32) /\ inp.items = <<<<1>>, <<2>>, <<3>>>>)
         => writer.stream = <<248, 3, 32, 1, 1, 1, 2, 1, 3>>

\* the list of FORMAT.md has been written
C9_Witness ==
  /\ Written
  /\ inp.kind = "u8" /\ inp.t = FromNat(32) /\ inp.items = <<<<1>>, <<2>>, <<3>>>>
  /\ writer.stream = <<248, 3, 32, 1, 1, 1, 2, 1, 3>>

---------------------------------------------------------------------------
(* Sub-streams: a reader steps through a chunk that holds a sub-stream and *)
(* the chunk after it, by GetToken, typed gets and SubStream scopes        *)

\* the deepest nesting of SubStream scopes
MaxDepth == 2

\* contents of the sub-stream chunk that decode without error: nothing, one
\* member, two members, a list of two items, a nested chunk, a list of three
\* items, a list of two items and a member after it
SoundInners ==
  {<<>>, <<0, 1, 5>>, <<0, 1, 5, 1, 2, 1, 2>>, <<248, 2, 0, 1, 5, 1, 6>>,
   <<2, 3, 0, 1, 5>>, <<248, 3, 0, 1, 5, 0, 1, 6>>,
   <<248, 2, 0, 1, 5, 1, 6, 1, 1, 9>>}

\* contents that do not: a header cut short, a length that runs past the end
\* of the sub-stream, 0xF8 where the length is expected (alone, and followed
\* by a count, a token and two items), a payload wider than the int16_t it is
\* read into, a nested chunk with a length that runs past its end and a
\* member after it, the lengths 2^64 - 1 and 2^63, an empty member followed by
\* a header of 10 bytes with the length 2^64 - 12 and one more byte
CorruptInners ==
  {<<0>>, <<0, 5, 1>>, <<0, 248, 1>>, <<0, 248, 2, 0, 1, 5, 1, 6>>,
   <<0, 3, 1, 2, 3>>, <<2, 2, 0, 5, 0, 1, 5>>,
   <<0, 255, 255, 255, 255, 255, 255, 255, 255, 255>>,
   <<0, 255, 128, 0, 0, 0, 0, 0, 0, 0>>,
   <<0, 0, 0, 255, 255, 255, 255, 255, 255, 255, 255, 244, 0>>}

\* the stream: the chunk of token 0x10 with the sub-stream, the chunk of
\* token 0x11 with the value 7
SubBytes(inner) == <<16, Len(inner)>> \o inner \o <<17, 1, 7>>

\* Reader::GetToken begins with the Skip of what is left of the payload
Position(r) == IF r.remainingInElement # Zero64 THEN Skip(r) ELSE r

\* Reader::GetToken goes on to decode a chunk header from the stream: no
\* error is latched, no token is pushed back, the context has not ended, the
\* position is not the end of a container item
DecodesHeader(r) ==
  /\ ~r.badStream /\ ~r.tokenPushed
  /\ ~EOS(Position(r))
  /\ ~PastEOS(Position(r), FromNat(2))
  /\ ~(/\ Position(r).context.containerElementEnd # Zero64
       /\ Position(r).context.containerElementEnd = Position(r).offset)

\* no list is being read
NoList ==
  [k |-> 0, n |-> 0, t |-> InvalidTokenValue, depth |-> 0, tok |-> InvalidTokenValue,
   fresh |-> FALSE, context |-> NewContext(Zero64)]

\* the calls of GetToken on a list as the caller counts them, g being the
\* result of the call: the call that decodes the prefix is the first, the
\* calls that follow in the same scope are counted up to the one after the
\* last item; a pushed token handed out again is not a new call
ListCounted(list, g) ==
  IF reader.badStream \/ reader.tokenPushed THEN list
  ELSE IF g[1].badStream THEN NoList
  ELSE IF Less64(One64, g[1].nextContainerElementCount)
       THEN [k |-> 1, n |-> ToNat(g[1].nextContainerElementCount), t |-> g[2],
             depth |-> Len(scopes), tok |-> g[2], fresh |-> DecodesHeader(reader),
             context |-> g[1].context]
  ELSE IF list.k = 0 \/ list.depth # Len(scopes) THEN list
  ELSE IF list.k > list.n THEN NoList
  ELSE [list EXCEPT !.k = @ + 1, !.tok = g[2], !.fresh = DecodesHeader(reader),
                    !.context = g[1].context]

NoSub ==
  [header |-> [fresh |-> FALSE, at |-> 0, token |-> InvalidTokenValue,
               bad |-> FALSE, count |-> Zero64, again |-> FALSE],
   closed |-> [done |-> FALSE, open |-> Zero64, len |-> Zero64, before |-> Zero64,
               after |-> Zero64, bad |-> FALSE, sibling |-> FALSE,
               atOpen |-> NewContext(Zero64), restored |-> NewContext(Zero64)],
   value |-> PreRead, after |-> "none", resume |-> "none", list |-> NoList]

\* Reader reader{stream}
InitSub ==
  /\ inp \in [inner : SoundInners \cup CorruptInners]
  /\ writer = NewWriter(FALSE)
  /\ reader = NewReader(SubBytes(inp.inner))
  /\ scopes = <<>>
  /\ pc = "loop"
  /\ out = NoSub

\* token = reader.GetToken().  When it hands out the token that was pushed
\* back, the header is still the one the GetToken before it decoded.
SubGetToken ==
  /\ \E g \in {GetToken(reader)} :
       /\ reader' = g[1]
       /\ out' = [out EXCEPT
            !.header = IF ~reader.badStream /\ reader.tokenPushed
                       THEN [@ EXCEPT !.token = g[2], !.bad = g[1].badStream,
                                      !.count = g[1].nextContainerElementCount,
                                      !.again = TRUE]
                       ELSE [fresh |-> DecodesHeader(reader),
                             at |-> ToNat(Position(reader).offset),
                             token |-> g[2], bad |-> g[1].badStream,
                             count |-> g[1].nextContainerElementCount,
                             again |-> FALSE],
            !.after = IF @ = "closed" THEN "token" ELSE "none",
            !.resume = IF @ = "closed" THEN "token" ELSE "none",
            !.list = ListCounted(@, g)]
  /\ pc' = "got"
  /\ UNCHANGED <<writer, scopes, inp>>

\* reader >> value for an int16_t value
SubGet ==
  /\ pc = "got"
  /\ \E oob \in {0, 255} :
       \E g \in {GetInt(reader, 2, TRUE, oob)} :
         /\ reader' = g[1]
         /\ out' = [out EXCEPT !.value = g[2],
                               !.after = IF @ = "token" THEN "value" ELSE "none",
                               !.resume = "none"]
  /\ pc' = "loop"
  /\ UNCHANGED <<writer, scopes, inp>>

\* SubStream sub{reader} on the chunk GetToken returned
SubOpen ==
  /\ pc = "got" /\ Len(scopes) < MaxDepth
  /\ \E o \in {SubStreamOpen(reader)} :
       /\ reader' = o[1]
       /\ scopes' = Append(scopes, [old |-> o[2], open |-> reader.offset,
                                    len |-> reader.remainingInElement,
                                    badAtOpen |-> reader.badStream,
                                    atOpen |-> reader.context])
  /\ out' = [out EXCEPT !.after = "none", !.resume = "none"]
  /\ pc' = "loop"
  /\ UNCHANGED <<writer, inp>>

\* the innermost SubStream goes out of scope, wherever the decoder is
SubClose ==
  /\ scopes # <<>>
  /\ \E top \in {scopes[Len(scopes)]} :
       \E r \in {SubStreamClose(reader, top.old)} :
         /\ reader' = r
         /\ out' = [out EXCEPT
              !.closed = [done |-> TRUE, open |-> top.open, len |-> top.len,
                          before |-> reader.offset, after |-> r.offset,
                          bad |-> reader.badStream,
                          sibling |-> Less64(Add64(top.open, top.len), r.context.end),
                          atOpen |-> top.atOpen, restored |-> r.context],
              !.after = IF reader.badStream /\ ~top.badAtOpen THEN "closed" ELSE "none",
              !.resume = IF ~reader.badStream
                              /\ top.atOpen.containerToken # InvalidTokenValue
                         THEN "closed" ELSE "none",
              !.list = IF @.depth >= Len(scopes) THEN NoList ELSE @]
  /\ scopes' = SubSeq(scopes, 1, Len(scopes) - 1)
  /\ pc' = "loop"
  /\ UNCHANGED <<writer, inp>>

\* reader.PushLastToken()
SubPush ==
  /\ ~reader.tokenPushed
  /\ reader' = PushLastToken(reader)
  /\ out' = [out EXCEPT !.after = "none", !.resume = "none"]
  /\ pc' = "loop"
  /\ UNCHANGED <<writer, scopes, inp>>

\* reader.Skip() of the chunk GetToken returned
SubSkip ==
  /\ pc = "got"
  /\ reader' = Skip(reader)
  /\ out' = [out EXCEPT !.after = "none", !.resume = "none"]
  /\ pc' = "loop"
  /\ UNCHANGED <<writer, scopes, inp>>

NextSub == SubGetToken \/ SubGet \/ SubOpen \/ SubClose \/ SubPush \/ SubSkip

SpecSub == InitSub /\ [][NextSub]_vars

\* the declared end of the scope that closed last
DeclaredEnd == Add64(out.closed.open, out.closed.len)

ErrorInside == out.after # "none" /\ out.closed.sibling /\ inp.inner \in CorruptInners

LengthEscape ==
  /\ out.header.fresh
  /\ out.header.at + 2 <= Len(reader.stream)
  /\ reader.stream[out.header.at + 1] < 128
  /\ reader.stream[out.header.at + 2] = 248

\* the header GetToken decoded last begins with 0xF8
TokenEscape ==
  /\ out.header.fresh
  /\ reader.stream[out.header.at + 1] = 248

\* C10 as stated: 0xF8 in the length position of a chunk header is taken as
\* the list escape and is not an error.
C10_EscapeInLengthPosition ==
  LengthEscape =>
    /\ ~out.header.bad
    /\ out.header.token # InvalidTokenValue

\* C10: 0xF8 is the list escape in the token position of a chunk header: the
\* element count and the shared token follow it, GetToken returns the shared
\* token and keeps the count.  In the length position, after the token, 0xF8
\* latches bad_stream and GetToken returns the invalid token.
C10_EscapeInTokenPosition ==
  /\ LengthEscape =>
       /\ out.header.bad
       /\ out.header.token = InvalidTokenValue
  /\ TokenEscape =>
       /\ ~out.header.bad
       /\ out.header.count = FromNat(reader.stream[out.header.at + 2])
       /\ out.header.token = FromNat(reader.stream[out.header.at + 3])

\* inside the sub-stream a header with 0xF8 after its token has been decoded
C10_Witness == LengthEscape /\ out.header.bad /\ Len(scopes) = 1

---------------------------------------------------------------------------
(* Unknown tokens: an object with the token map {0 -> a, 1 -> names}, a   *)
(* uint8_t and a std::vector<std::string>, is written; it is read from    *)
(* the stream as written and from the stream with one more chunk in it    *)

\* Writer::operator<<(const std::vector<T>&): Put(m_nextToken, items)
StreamContainer(w, items, kind) == PutContainer(w, w.nextToken, items, kind)

\* a default constructed object
NewDoc == [a |-> <<0>>, names |-> <<>>]

RECURSIVE DocRead(_, _, _)
\* Serializable::Read: the accessor's Get has stored the member, g is what
\* reader >> member returned
DocStore(g, doc, member, uninit) ==
  DocRead(g[1], [doc EXCEPT ![member] = g[2]], uninit)

\* the body of the loop of Serializable::Read: tokenMap.find(token) and Get
DocMember(g, doc, uninit) ==
  IF g[2] = FromNat(0) THEN DocStore(GetUByte(g[1], uninit), doc, "a", uninit)
  ELSE IF g[2] = FromNat(1)
       THEN DocStore(GetContainer(g[1], doc.names, "str", uninit), doc, "names", uninit)
       ELSE DocRead(g[1], doc, uninit)

\* Serializable::Read: <<reader after, object after>>
DocRead(r, doc, uninit) ==
  IF EOS(r) THEN <<r, doc>> ELSE DocMember(GetToken(r), doc, uninit)

RECURSIVE GenericRead(_, _, _)
\* Generic::Member<T>::Get: reader >> value, g is what it returned
GenericStore(g, members, t, uninit) ==
  GenericRead(g[1], [members EXCEPT ![t] = g[2]], uninit)

\* the body of the loop of Generic::Read: m_members.find(t) and Get, for the
\* members Add(0, uint8_t) and Add(1, std::vector<std::string>)
GenericMember(g, members, uninit) ==
  IF g[2] = FromNat(0) THEN GenericStore(GetUByte(g[1], uninit), members, "a", uninit)
  ELSE IF g[2] = FromNat(1)
       THEN GenericStore(GetContainer(g[1], members.names, "str", uninit),
                         members, "names", uninit)
       ELSE GenericRead(g[1], members, uninit)

\* Generic::Read: <<reader after, members after>>
GenericRead(r, members, uninit) ==
  IF EOS(r) THEN <<r, members>> ELSE GenericMember(GetToken(r), members, uninit)

\* chunks of the tokens 5 and 128, which the map does not hold: a scalar, a
\* chunk of length 0, a sub-stream whose own chunk has the token 0, lists of
\* one, two and three items, a scalar under a two byte token
UnknownChunks ==
  {<<5, 1, 9>>, <<5, 0>>, <<5, 3, 0, 1, 9>>, <<248, 1, 5, 1, 9>>,
   <<248, 2, 5, 1, 1, 1, 2>>, <<248, 3, 5, 0, 1, 7, 0>>, <<128, 128, 1, 9>>}

UnknownInputs ==
  {[doc |-> [a |-> a, names |-> names], trim |-> tr, unknown |-> u,
    append |-> ap, generic |-> ge] :
     a \in {<<0>>, <<1>>, <<200>>}, names \in Vectors("str"), tr \in BOOLEAN,
     u \in UnknownChunks, ap \in BOOLEAN, ge \in BOOLEAN}

InitUnknown ==
  /\ inp \in UnknownInputs
  /\ writer = NewWriter(inp.trim)
  /\ reader = NewReader(<<>>)
  /\ scopes = <<>>
  /\ pc = "start"
  /\ out = [boundary |-> 0, plain |-> NewDoc, plainBad |-> FALSE, extended |-> NewDoc]

\* Serializable::Write, the entry of token 0: PutToken and writer << a
DocPutA ==
  /\ pc = "start"
  /\ writer' = StreamUByte(PutToken(writer, FromNat(0)), inp.doc.a)
  /\ out' = [out EXCEPT !.boundary = Len(writer'.stream)]
  /\ pc' = "names"
  /\ UNCHANGED <<reader, scopes, inp>>

\* Serializable::Write, the entry of token 1: PutToken and writer << names
DocPutNames ==
  /\ pc = "names"
  /\ writer' = StreamContainer(PutToken(writer, FromNat(1)), inp.doc.names, "str")
  /\ pc' = "plain"
  /\ UNCHANGED <<reader, scopes, inp, out>>

\* the stream with the unknown chunk after it or between its two chunks
Extended(stream, boundary) ==
  IF inp.append THEN stream \o inp.unknown
  ELSE SubSeq(stream, 1, boundary) \o inp.unknown
         \o SubSeq(stream, boundary + 1, Len(stream))

\* object.Read(reader) for a Serializable or a Generic and a new Reader
ObjectRead(bytes, uninit) ==
  IF inp.generic THEN GenericRead(NewReader(bytes), NewDoc, uninit)
  ELSE DocRead(NewReader(bytes), NewDoc, uninit)

\* the stream is read as written
UnknownReadPlain ==
  /\ pc = "plain"
  /\ \E uninit \in {0, 255} :
       \E g \in {ObjectRead(writer.stream, uninit)} :
         /\ reader' = g[1]
         /\ out' = [out EXCEPT !.plain = g[2], !.plainBad = g[1].badStream]
  /\ pc' = "extended"
  /\ UNCHANGED <<writer, scopes, inp>>

\* the stream is read with the unknown chunk in it
UnknownReadExtended ==
  /\ pc = "extended"
  /\ \E uninit \in {0, 255} :
       \E g \in {ObjectRead(Extended(writer.stream, out.boundary), uninit)} :
         /\ reader' = g[1]
         /\ out' = [out EXCEPT !.extended = g[2]]
  /\ pc' = "done"
  /\ UNCHANGED <<writer, scopes, inp>>

NextUnknown == DocPutA \/ DocPutNames \/ UnknownReadPlain \/ UnknownReadExtended

SpecUnknown == InitUnknown /\ [][NextUnknown]_vars

\* C2: a well-formed chunk of a token the map does not hold (a scalar, a
\* chunk of length 0, a nested sub-stream, a 0xF8 list), put between two
\* chunks of a stream or after it, leaves every member Serializable::Read
\* and Generic::Read decode as it is decoded from the stream itself, and
\* bad_stream is not latched.
C2_UnknownChunkIgnored ==
  pc = "done" =>
    /\ out.extended = out.plain
    /\ ~reader.badStream
    /\ ~out.plainBad
    /\ reader.offset = FromNat(Len(reader.stream))

\* a list of an unknown token stood between the uint8_t and a list of two
\* strings, and both were read
C2_Witness ==
  /\ pc = "done" /\ ~inp.append /\ inp.unknown = <<248, 2, 5, 1, 1, 1, 2>>
  /\ out.boundary > 0 /\ Len(reader.stream) > out.boundary + 7
  /\ out.extended = [a |-> <<200>>, names |-> <<<<65>>, <<65, 66>>>>]

---------------------------------------------------------------------------
(* The latched error of the Reader *)

\* C11: once bad_stream is set no operation clears it (GetToken, a typed
\* get, PushLastToken, Skip, the open and the close of a SubStream scope, at
\* every depth); from then on EOS() is true and every GetToken returns the
\* invalid token 0xFFFFFFFFFFFFFFFF.
C11_BadStreamLatched ==
  [][reader.badStream =>
       /\ reader'.badStream
       /\ EOS(reader')
       /\ GetToken(reader')[2] = InvalidTokenValue
       /\ pc' = "got" => out'.header.token = InvalidTokenValue]_vars

\* with the error latched inside a scope, the scope closed, the token was
\* pushed back and GetToken returned the invalid token at the top level
C11_Witness ==
  /\ reader.badStream /\ scopes = <<>> /\ out.closed.done /\ out.closed.bad
  /\ pc = "got" /\ out.header.token = InvalidTokenValue /\ ~out.header.fresh
  /\ reader.tokenPushed

---------------------------------------------------------------------------
(* A Writer takes a sequence of puts of every kind; its sink is a stream   *)
(* without limit or one with room for a few bytes only                      *)

\* the longest sequence of puts
MaxPuts == 4

\* the largest room of a bounded sink, in bytes
MaxRoom == 2

\* the tokens of the puts: 0x03, 0x20 and no token.  The scalar and the
\* record are put under each of them, the other kinds under one.
WriterTokens == {FromNat(3), FromNat(32), InvalidTokenValue}

\* the objects put: a record of two members equal to their defaults, a record
\* with one member set, the Date of FORMAT.md
WriterRecords ==
  {NewRecord, [a |-> <<1>>, b |-> <<0>>],
   [day |-> <<27>>, month |-> <<3>>, year |-> <<7, 174>>]}

\* MemoryWriter writer{trim}, or a Writer with trim_defaults on a sink of
\* bounded room
InitWriter ==
  /\ inp \in {[trim |-> tr \/ b, bounded |-> b, room |-> IF b THEN n ELSE 0] :
                 tr \in BOOLEAN, b \in BOOLEAN, n \in 0..MaxRoom}
  /\ writer = [NewWriter(inp.trim) EXCEPT !.sinkBounded = inp.bounded,
                                          !.sinkRoom = inp.room]
  /\ reader = NewReader(<<>>)
  /\ scopes = <<>>
  /\ pc = "put"
  /\ out = [op |-> "none", pre |-> writer, token |-> InvalidTokenValue,
            value |-> <<>>, keep |-> FALSE, n |-> 0]

\* writer.Put(t, uint8_t{v})
WPutScalar ==
  /\ out.n < MaxPuts /\ writer.nextToken = InvalidTokenValue
  /\ \E t \in WriterTokens, v \in {<<0>>, <<5>>} :
       /\ t = FromNat(3) \/ v # <<0>>
       /\ writer' = PutInt(writer, t, v, <<0>>, FALSE)
       /\ out' = [op |-> "scalar", pre |-> writer, token |-> t, value |-> v,
                  keep |-> FALSE, n |-> out.n + 1]
  /\ UNCHANGED <<reader, scopes, pc, inp>>

\* writer.Put(t, str)
WPutString ==
  /\ out.n < MaxPuts /\ writer.nextToken = InvalidTokenValue
  /\ \E t \in {FromNat(32)}, v \in {<<>>, <<65, 66>>} :
       /\ writer' = PutString(writer, t, v, <<>>)
       /\ out' = [op |-> "string", pre |-> writer, token |-> t, value |-> v,
                  keep |-> FALSE, n |-> out.n + 1]
  /\ UNCHANGED <<reader, scopes, pc, inp>>

\* writer.Put(t, block, len): PutData(token, block, len)
WPutBlock ==
  /\ out.n < MaxPuts /\ writer.nextToken = InvalidTokenValue
  /\ \E t \in {FromNat(3)}, v \in {<<>>, <<0, 7>>} :
       /\ writer' = PutData(writer, t, v, FALSE, FALSE)
       /\ out' = [op |-> "block", pre |-> writer, token |-> t, value |-> v,
                  keep |-> FALSE, n |-> out.n + 1]
  /\ UNCHANGED <<reader, scopes, pc, inp>>

\* writer.Put(t, stream) for a std::istream
WPutStream ==
  /\ out.n < MaxPuts /\ writer.nextToken = InvalidTokenValue
  /\ \E t \in {FromNat(32)}, v \in {<<>>, <<1, 1, 9>>} :
       /\ writer' = PutStream(writer, t, v)
       /\ out' = [op |-> "stream", pre |-> writer, token |-> t, value |-> v,
                  keep |-> FALSE, n |-> out.n + 1]
  /\ UNCHANGED <<reader, scopes, pc, inp>>

\* writer.PutContainerElementCount(t, n)
WPutCount ==
  /\ out.n < MaxPuts /\ writer.nextToken = InvalidTokenValue
  /\ \E t \in {FromNat(3)}, n \in {1, 2, MaxItems} :
       /\ writer' = PutContainerElementCount(writer, t, n)
       /\ out' = [op |-> "count", pre |-> writer, token |-> t, value |-> <<n>>,
                  keep |-> FALSE, n |-> out.n + 1]
  /\ UNCHANGED <<reader, scopes, pc, inp>>

\* writer.Put(t, items) for a std::vector<uint8_t>
WPutContainer ==
  /\ out.n < MaxPuts /\ writer.nextToken = InvalidTokenValue
  /\ \E t \in {FromNat(32)}, v \in {<<>>, <<<<1>>>>, <<<<0>>, <<2>>>>} :
       /\ writer' = PutContainer(writer, t, v, "u8")
       /\ out' = [op |-> "container", pre |-> writer, token |-> t, value |-> v,
                  keep |-> FALSE, n |-> out.n + 1]
  /\ UNCHANGED <<reader, scopes, pc, inp>>

\* writer.Put(t, object, keepStubOnEmpty) for a Serializable
WPutRecord ==
  /\ out.n < MaxPuts /\ writer.nextToken = InvalidTokenValue
  /\ \E t \in WriterTokens, v \in WriterRecords, keep \in BOOLEAN :
       /\ t # FromNat(3) => keep
       /\ t = InvalidTokenValue => v = NewRecord
       /\ (v # NewRecord /\ t = FromNat(3)) => ~keep
       /\ "a" \in DOMAIN v /\ v # NewRecord => t = FromNat(3)
       /\ writer' = PutSerializable(writer, t, v, keep)
       /\ out' = [op |-> "record", pre |-> writer, token |-> t, value |-> v,
                  keep |-> keep, n |-> out.n + 1]
  /\ UNCHANGED <<reader, scopes, pc, inp>>

\* writer << Token(t), made when the "Token already set" assertion holds
WPutToken ==
  /\ out.n < MaxPuts /\ writer.nextToken = InvalidTokenValue
  /\ \E t \in {FromNat(3)} :
       /\ writer' = PutToken(writer, t)
       /\ out' = [op |-> "token", pre |-> writer, token |-> t, value |-> <<>>,
                  keep |-> FALSE, n |-> out.n + 1]
  /\ UNCHANGED <<reader, scopes, pc, inp>>

\* writer << uint8_t{v} after a token
WStreamScalar ==
  /\ out.n < MaxPuts /\ writer.nextToken # InvalidTokenValue
  /\ \E v \in {<<0>>, <<5>>} :
       /\ writer' = StreamUByte(writer, v)
       /\ out' = [op |-> "scalar", pre |-> writer, token |-> writer.nextToken,
                  value |-> v, keep |-> FALSE, n |-> out.n + 1]
  /\ UNCHANGED <<reader, scopes, pc, inp>>

\* writer << object after a token: Put(m_nextToken, object)
WStreamRecord ==
  /\ out.n < MaxPuts /\ writer.nextToken # InvalidTokenValue
  /\ \E v \in {NewRecord, [a |-> <<1>>, b |-> <<0>>]} :
       /\ writer' = PutSerializable(writer, writer.nextToken, v, FALSE)
       /\ out' = [op |-> "record", pre |-> writer, token |-> writer.nextToken,
                  value |-> v, keep |-> FALSE, n |-> out.n + 1]
  /\ UNCHANGED <<reader, scopes, pc, inp>>

\* writer << str after a token: Put(m_nextToken, str)
WStreamString ==
  /\ out.n < MaxPuts /\ writer.nextToken # InvalidTokenValue
  /\ \E v \in {<<>>, <<65, 66>>} :
       /\ writer' = PutString(writer, writer.nextToken, v, <<>>)
       /\ out' = [op |-> "string", pre |-> writer, token |-> writer.nextToken,
                  value |-> v, keep |-> FALSE, n |-> out.n + 1]
  /\ UNCHANGED <<reader, scopes, pc, inp>>

NextWriter ==
  \/ WPutScalar \/ WPutString \/ WPutBlock \/ WPutStream
  \/ WPutCount \/ WPutContainer \/ WPutRecord
  \/ WPutToken \/ WStreamScalar \/ WStreamRecord \/ WStreamString

SpecWriter == InitWriter /\ [][NextWriter]_vars

\* C12: once the Writer's bad_stream is set it is not cleared, and a later
\* put of any kind (scalar, string, binary block, stream copy, container
\* element count, container, record) appends no byte to the sink.
C12_WriterLatched ==
  (out.op # "none" /\ out.pre.badStream) =>
    /\ writer.badStream
    /\ writer.stream = out.pre.stream

\* a container was put on a Writer with bad_stream set, inside an open list
C12_Witness ==
  /\ out.op = "container" /\ out.value = <<<<0>>, <<2>>>> /\ out.pre.badStream
  /\ out.pre.containerToken # InvalidTokenValue
  /\ Len(writer.stream) > 0

\* the put is of one item: a scalar, a string, a block or a stream copy
ItemPut == out.op \in {"scalar", "string", "block", "stream"} /\ ~out.pre.badStream

\* the item is written and not trimmed as a default
Emitted ==
  IF out.op = "scalar" THEN out.value # <<0>> \/ ~out.pre.trimDefaults
  ELSE out.value # <<>> \/ ~out.pre.trimDefaults

\* a list is open on the Writer before the put
ScopeActive == out.pre.containerToken # InvalidTokenValue

\* the put before which a list is open counts as its next item, the list
\* closes with its last item
ItemCounted ==
  /\ writer.containerElementIndex = Add64(out.pre.containerElementIndex, One64)
  /\ writer.containerToken =
       (IF writer.containerElementIndex = out.pre.containerElementCount
        THEN InvalidTokenValue ELSE out.pre.containerToken)
  /\ ~writer.badStream
  /\ ~out.pre.sinkBounded =>
       writer.stream =
         out.pre.stream
           \o (IF out.pre.containerElementIndex = Zero64
               THEN DocumentedEncoding(out.token) ELSE <<>>)
           \o DocumentedEncoding(FromNat(Len(out.value))) \o out.value

\* PutContainerElementCount(t, n) with n >= 2 opens the list, an item of the
\* list's token is counted, an item that is not emitted is not, and without
\* an open list a put writes its own token
ScopeRules ==
  /\ (out.op = "count" /\ ~out.pre.badStream /\ out.value[1] >= 2) =>
       /\ writer.containerToken = out.token
       /\ writer.containerElementCount = FromNat(out.value[1])
       /\ writer.containerElementIndex = Zero64
  /\ (ItemPut /\ ScopeActive /\ Emitted /\ out.token = out.pre.containerToken) =>
       ItemCounted
  /\ (ItemPut /\ ScopeActive /\ ~Emitted) =>
       /\ writer.stream = out.pre.stream
       /\ writer.containerElementIndex = out.pre.containerElementIndex
       /\ writer.containerToken = out.pre.containerToken
  /\ (ItemPut /\ ~ScopeActive /\ Emitted /\ out.token # InvalidTokenValue
        /\ ~out.pre.sinkBounded) =>
       writer.stream =
         out.pre.stream \o DocumentedEncoding(out.token)
           \o DocumentedEncoding(FromNat(Len(out.value))) \o out.value

\* an item is put under a token that is not the token of the open list
Mismatch == ItemPut /\ ScopeActive /\ Emitted /\ out.token # out.pre.containerToken

\* C13 as stated: after PutContainerElementCount(t, n), n >= 2, the list is
\* open for the next n emitted items; an item put under another token while
\* it is open sets bad_stream and writes nothing; after the n-th item the
\* list is closed and the next put writes its own token.
C13_ContainerScope ==
  /\ ScopeRules
  /\ Mismatch => (writer.badStream /\ writer.stream = out.pre.stream)

\* the same, with what the Writer does on a mismatch: bad_stream is set, the
\* header is not written, the item is not counted, and the payload of the
\* item is appended to the sink
C13_ContainerScopePayloadWritten ==
  /\ ScopeRules
  /\ Mismatch =>
       /\ writer.badStream
       /\ writer.containerElementIndex = out.pre.containerElementIndex
       /\ writer.containerToken = out.pre.containerToken
       /\ ~out.pre.sinkBounded => writer.stream = out.pre.stream \o out.value

\* a list of two was opened, two items closed it and the scalar after them
\* was written with its own token
C13_Witness ==
  /\ out.n = 4 /\ out.op = "scalar" /\ out.token = FromNat(32)
  /\ ~ScopeActive /\ out.pre.containerElementIndex = FromNat(2)
  /\ ~writer.badStream /\ ~out.pre.sinkBounded
  /\ Len(writer.stream) = Len(out.pre.stream) + 3

---------------------------------------------------------------------------
(* Declared lengths and the end of the context *)

\* GetToken has just decoded a chunk header whose declared length is more
\* than the bytes left in the context
TooLarge ==
  /\ pc = "got" /\ out.header.fresh
  /\ ~Less64(reader.context.end, reader.offset)
  /\ Less64(Sub64(reader.context.end, reader.offset), reader.remainingInElement)

\* offset + length is more than 2^64 - 1
Wraps == Less64(Add64(reader.offset, reader.remainingInElement), reader.offset)

\* C14 as stated: a chunk header whose declared length is more than the
\* bytes left in the context, for every 64-bit length, makes GetToken set
\* bad_stream and return the invalid token.
C14_TooLargeRejected ==
  TooLarge => (out.header.bad /\ out.header.token = InvalidTokenValue)

\* the same for the lengths with offset + length below 2^64; with a larger
\* length the sum PastEOS compares wraps and GetToken returns the token
C14_TooLargeRejectedUnlessWrap ==
  /\ (TooLarge /\ ~Wraps) => (out.header.bad /\ out.header.token = InvalidTokenValue)
  /\ (TooLarge /\ Wraps /\ Less64(Add64(reader.offset, reader.remainingInElement),
                                  reader.context.end)) =>
       (~out.header.bad /\ out.header.token # InvalidTokenValue)

\* a header with the length 2^63 was rejected inside the sub-stream
C14_Witness ==
  /\ TooLarge /\ ~Wraps /\ out.header.bad /\ Len(scopes) = 1
  /\ reader.remainingInElement = <<128, 0, 0, 0, 0, 0, 0, 0>>

---------------------------------------------------------------------------
(* The Writer on a sink that fails *)

\* during the put the sink was asked for more than its room and failed
SinkFailedInPut == out.op # "none" /\ ~out.pre.sinkFailed /\ writer.sinkFailed

\* C15 as stated: when a write to the sink fails during a put, the Writer
\* sets bad_stream during that put, and every later put is a no-op.
C15_SinkFailureLatched ==
  /\ SinkFailedInPut => writer.badStream
  /\ (out.op # "none" /\ out.pre.sinkFailed) =>
       /\ writer.badStream
       /\ writer.stream = out.pre.stream

\* what the Writer does: the failed write leaves bad_stream as it was (it is
\* set in that put only by a token that does not fit: no token, or not the
\* token of the open list), and the failed sink takes no more bytes
C15_SinkFailureUnnoticed ==
  /\ (SinkFailedInPut /\ ~out.pre.badStream /\ out.token # InvalidTokenValue
        /\ ~(ScopeActive /\ out.token # out.pre.containerToken)) =>
       ~writer.badStream
  /\ (out.op # "none" /\ out.pre.sinkFailed) => writer.stream = out.pre.stream

\* a sink with room for two bytes took the first two of the three bytes of a
\* chunk and failed, and bad_stream is not set
C15_Witness ==
  /\ SinkFailedInPut /\ out.op = "scalar" /\ out.n = 1 /\ inp.room = 2
  /\ writer.stream = <<3, 1>> /\ ~writer.badStream

---------------------------------------------------------------------------
(* Gets on a chunk of length 0 *)

\* the default of the destination type: 0, false, the empty string
DefaultValue ==
  CASE inp.kind = "int" -> Zeros(inp.width)
    [] inp.kind = "enum" -> Zeros(8)
    [] inp.kind = "bool" -> FALSE
    [] inp.kind = "str" -> <<>>

\* a get was done on a chunk of declared length 0 that GetToken returned
ZeroLengthGet == pc = "doneEmpty" /\ out.dispatched

\* C16 as stated: for every destination type, a get right after GetToken
\* returned a chunk of declared length 0 yields the default of the type and
\* consumes no byte.
C16_ZeroLengthDefault ==
  ZeroLengthGet =>
    /\ out.value = DefaultValue
    /\ ~out.moved

\* the same for the types where it holds, the unsigned integers of 16, 32
\* and 64 bits and the string; for every type no byte is consumed and
\* bad_stream is not set
C16_ZeroLengthUnsignedDefault ==
  ZeroLengthGet =>
    /\ ~out.moved
    /\ ~reader.badStream
    /\ (\/ inp.kind = "str"
        \/ inp.kind = "int" /\ inp.width > 1 /\ ~inp.signed) =>
         out.value = DefaultValue

\* a uint32_t was read from a chunk of length 0 under a two byte token
C16_Witness ==
  /\ ZeroLengthGet /\ inp.kind = "int" /\ inp.width = 4 /\ ~inp.signed
  /\ Len(writer.stream) = 3 /\ out.value = Zeros(4)

---------------------------------------------------------------------------
(* Records put as sub-streams *)

\* a record is put under a one byte token on a Writer without an error, an
\* open list or a bound on its sink
PlainRecordPut ==
  /\ out.op = "record" /\ out.token # InvalidTokenValue
  /\ ~out.pre.badStream /\ ~ScopeActive /\ ~out.pre.sinkBounded

\* the bytes of the record's own serialization: each member that is written
\* as token, length 1 or 2, value
RecordBytes ==
  IF "year" \in DOMAIN out.value THEN <<0, 1, 27, 1, 1, 3, 2, 2, 7, 174>>
  ELSE (IF out.value.a # <<0>> \/ ~out.pre.trimDefaults
        THEN <<0, 1>> \o out.value.a ELSE <<>>)
         \o (IF out.value.b # <<0>> \/ ~out.pre.trimDefaults
             THEN <<1, 1>> \o out.value.b ELSE <<>>)

\* C17: with trim_defaults on, Put(t, record, keep_stub) of a record that
\* serializes to no byte writes nothing when keep_stub is false and the two
\* bytes t 00 when it is true, for a one byte token t.
C17_EmptyRecordStub ==
  (PlainRecordPut /\ out.pre.trimDefaults /\ RecordBytes = <<>>) =>
    /\ writer.stream = out.pre.stream \o (IF out.keep THEN <<out.token[8], 0>> ELSE <<>>)
    /\ ~writer.badStream
    /\ writer.trimDefaults

\* the stub 20 00 of an empty record was written after another chunk
C17_Witness ==
  /\ PlainRecordPut /\ out.pre.trimDefaults /\ RecordBytes = <<>> /\ out.keep
  /\ out.pre.stream # <<>>
  /\ writer.stream = out.pre.stream \o <<32, 0>>

\* C18: Put(t, record) of a record with a serialization that is not empty
\* writes varint(t), the varint of the byte count of the serialization, and
\* the serialization unchanged; Date{day=27, month=3, year=1966} under token
\* 0x03 is 03 0A 00 01 1B 01 01 03 02 02 07 AE.
C18_RecordChunk ==
  (PlainRecordPut /\ RecordBytes # <<>>) =>
    /\ writer.stream =
         out.pre.stream \o DocumentedEncoding(out.token)
           \o DocumentedEncoding(FromNat(Len(RecordBytes))) \o RecordBytes
    /\ ("year" \in DOMAIN out.value /\ out.token = FromNat(3)) =>
         writer.stream = out.pre.stream \o <<3, 10, 0, 1, 27, 1, 1, 3, 2, 2, 7, 174>>
    /\ ~writer.badStream

\* the Date was put under 0x03 on a fresh Writer
C18_Witness ==
  /\ PlainRecordPut /\ out.n = 1
  /\ writer.stream = <<3, 10, 0, 1, 27, 1, 1, 3, 2, 2, 7, 174>>

---------------------------------------------------------------------------
(* Containers of no item and of one item *)

\* the serialization of a record of two uint8_t members
RecordItemBytes(rec, trim) ==
  (IF rec.a # <<0>> \/ ~trim THEN <<0, 1>> \o rec.a ELSE <<>>)
    \o (IF rec.b # <<0>> \/ ~trim THEN <<1, 1>> \o rec.b ELSE <<>>)

\* C19: the Writer does not write the 0xF8 prefix for a container of no item
\* or of one item: an empty container writes nothing with trim_defaults on,
\* and a container of one record that is not empty writes the bytes of the
\* put of that record alone under the token, one chunk token, length, payload.
C19_NoPrefixForShortLists ==
  (Written /\ Len(inp.items) <= 1) =>
    /\ writer.stream = <<>> \/ writer.stream[1] # 248
    /\ (inp.items = <<>> /\ inp.trim) => writer.stream = <<>>
    /\ (/\ inp.kind = "rec" /\ Len(inp.items) = 1
        /\ RecordItemBytes(inp.items[1], inp.trim) # <<>>) =>
         /\ writer.stream =
              PutSerializable(NewWriter(inp.trim), inp.t, inp.items[1], FALSE).stream
         /\ writer.stream =
              DocumentedEncoding(inp.t)
                \o DocumentedEncoding(FromNat(Len(RecordItemBytes(inp.items[1], inp.trim))))
                \o RecordItemBytes(inp.items[1], inp.trim)

\* a container of one record with one member set was written as one chunk
C19_Witness ==
  /\ Written /\ inp.kind = "rec" /\ inp.trim /\ inp.t = FromNat(32)
  /\ inp.items = <<[a |-> <<0>>, b |-> <<2>>]>>
  /\ writer.stream = <<32, 3, 1, 1, 2>>

---------------------------------------------------------------------------
(* The element count of a list *)

\* C20: after the GetToken that returns the first item of a list of n >= 2
\* items, and after that token is pushed back and fetched again,
\* NextContainerElementCount() is n; after a GetToken that decodes a header
\* without the list prefix it is 0.
C20_ElementCount ==
  /\ (TokenEscape /\ ~out.header.bad /\ reader.stream[out.header.at + 2] >= 2) =>
       /\ out.header.count = FromNat(reader.stream[out.header.at + 2])
       /\ pc = "got" => reader.nextContainerElementCount = out.header.count
  /\ (out.header.fresh /\ ~out.header.again /\ ~out.header.bad
        /\ reader.stream[out.header.at + 1] # 248) =>
       /\ out.header.count = Zero64
       /\ pc = "got" => reader.nextContainerElementCount = Zero64

\* the first item of a list of three was read, its token pushed back and
\* handed out again with the count still 3
C20_Witness ==
  /\ TokenEscape /\ out.header.again /\ pc = "got" /\ out.value # PreRead
  /\ reader.nextContainerElementCount = FromNat(3)

---------------------------------------------------------------------------
(* The bytes of a string chunk *)

\* the string "Joe Smith" was put under token 0x00, with no default
JoeSmithPut ==
  /\ inp.kind = "str" /\ inp.v = JoeSmith /\ inp.d = <<>> /\ inp.t = FromNat(0)
  /\ pc = "open" /\ ~out.empty

\* C24: putting the string "Joe Smith" under token 0x00 emits the 12 bytes
\* 00 0A 4A 6F 65 20 53 6D 69 74 68 00: a declared length of 10, the 9
\* characters and a NUL terminator.
C24_StringWithTerminator ==
  JoeSmithPut => writer.stream = <<0, 10>> \o JoeSmith \o <<0>>

\* C24, as the code behaves: the chunk is the 11 bytes 00 09 and the 9
\* characters, with no terminator.
C24_StringWithoutTerminator ==
  JoeSmithPut => writer.stream = <<0, 9>> \o JoeSmith

C24_Witness == JoeSmithPut /\ Len(writer.stream) = 11 /\ inp.trim

---------------------------------------------------------------------------
(* The pending token of the Writer *)

\* a value was put: a scalar, a string, a block, a stream copy, a container
\* or a record
ValuePut == out.op \notin {"none", "token", "count"}

\* C29: after every put of the Writer returns, whether it wrote bytes,
\* trimmed a default, or did nothing because bad_stream is set, the pending
\* token is unset, so the "Token already set" assertion of PutToken holds
\* for the PutToken that follows.
C29_PendingTokenUnset == ValuePut => writer.nextToken = InvalidTokenValue

\* C29, as the code behaves: the pending token is unset by every put made
\* with bad_stream clear, by every put of a string or a container, and by
\* the put of a scalar trimmed as a default; the other puts made with
\* bad_stream set leave the pending token as it was.
C29_PendingTokenKeptWhenBad ==
  ValuePut =>
    IF \/ ~out.pre.badStream
       \/ out.op \in {"string", "container"}
       \/ out.op = "scalar" /\ out.value = <<0>> /\ out.pre.trimDefaults
    THEN writer.nextToken = InvalidTokenValue
    ELSE writer.nextToken = out.pre.nextToken

\* a scalar was streamed after a token on a Writer with bad_stream set, and
\* the token is still pending
C29_Witness ==
  /\ out.op = "scalar" /\ out.pre.badStream /\ out.value = <<5>>
  /\ out.pre.nextToken = FromNat(3) /\ writer.nextToken = FromNat(3)

---------------------------------------------------------------------------
(* A chunk longer than the destination of the get *)

\* the get of the field has read a chunk of one byte more than the field holds
WideGet == out.wide /\ out.dispatched /\ inp.kind # "str"

\* the value 0 of the field's type
ZeroValue ==
  IF inp.kind = "bool" THEN FALSE
  ELSE IF inp.kind = "enum" THEN Zeros(8) ELSE Zeros(inp.width)

\* C30: a get into a destination of 8, 16, 32 or 64 bits (a bool or an enum
\* read through them included) of a chunk whose declared length is greater
\* than the destination's width stores no more bytes than the destination
\* holds: it sets bad_stream and returns 0.
C30_WideChunkRejected ==
  WideGet =>
    /\ out.stored <= inp.width
    /\ reader.badStream
    /\ out.value = ZeroValue

\* C30, as the code behaves: the gets of 16, 32 and 64 bits store nothing,
\* set bad_stream and return 0; the gets of 8 bits store the whole payload,
\* one byte more than the destination holds, and leave bad_stream clear.
C30_WideChunkRejectedAboveByte ==
  WideGet =>
    IF inp.width > 1
    THEN out.stored = 0 /\ reader.badStream /\ out.value = ZeroValue
    ELSE out.stored = 2 /\ ~reader.badStream

\* a chunk of 5 bytes was read into a destination of 32 bits
C30_Witness ==
  /\ WideGet /\ inp.kind = "int" /\ inp.width = 4 /\ reader.badStream
  /\ out.stored = 0 /\ pc = "doneWide"

---------------------------------------------------------------------------
(* The context of the Reader around a sub-stream scope *)

\* the end of the innermost open scope, or of the stream when none is open
InnermostEnd ==
  IF scopes = <<>> THEN FromNat(Len(reader.stream))
  ELSE Add64(scopes[Len(scopes)].open, scopes[Len(scopes)].len)

\* C26: when a SubStream scope closes, after a complete read, an early
\* return or a decode error inside it, the context of the reader (end,
\* container token, element count, element index, element end) is the
\* context that was current when the scope opened; the scopes nest, the
\* context of the reader being that of the innermost open one; and after the
\* scope of an item of a list has closed the next GetToken returns the
\* list's token for the item that follows.
C26_ContextRestored ==
  /\ out.closed.done => out.closed.restored = out.closed.atOpen
  /\ reader.context.end = InnermostEnd
  /\ out.resume = "token" =>
       /\ out.header.token = out.closed.atOpen.containerToken
       /\ ~out.header.bad
       /\ IF Add64(out.closed.atOpen.containerElementIndex, One64)
               = out.closed.atOpen.containerElementCount
          THEN reader.context.containerToken = InvalidTokenValue
          ELSE /\ reader.context.containerToken = out.closed.atOpen.containerToken
               /\ reader.context.containerElementIndex
                    = Add64(out.closed.atOpen.containerElementIndex, One64)

\* the scope of the first item of a list of three closed inside the scope of
\* the chunk, and GetToken went on to the second item
C26_Witness ==
  /\ out.resume = "token" /\ Len(scopes) = 1
  /\ out.closed.atOpen.containerElementCount = FromNat(3)
  /\ out.closed.atOpen.containerElementIndex = One64
  /\ reader.context.containerElementIndex = FromNat(2)
  /\ out.header.token = FromNat(0)

---------------------------------------------------------------------------
(* The tokens of the items of a list *)

\* C27: for a list prefix with element count n >= 2 and token t, the first n
\* calls of GetToken return t, the first decoded from the stream and the
\* others handed out at the end of the item before without a decode, whether
\* the caller reads, skips or ignores the payloads; up to the item before the
\* last the container scope holds t and the index of the item, at the last
\* item it is cleared, and the call after it decodes a token from the stream
\* or finds the end of the context.
C27_ListTokens ==
  /\ (out.list.k >= 1 /\ out.list.k <= out.list.n) =>
       /\ out.list.tok = out.list.t
       /\ out.list.fresh = (out.list.k = 1)
       /\ IF out.list.k = out.list.n
          THEN /\ out.list.context.containerToken = InvalidTokenValue
               /\ out.list.context.containerElementCount = Zero64
               /\ out.list.context.containerElementEnd = Zero64
          ELSE /\ out.list.context.containerToken = out.list.t
               /\ out.list.context.containerElementCount = FromNat(out.list.n)
               /\ out.list.context.containerElementIndex = FromNat(out.list.k)
  /\ out.list.k > out.list.n =>
       out.list.fresh \/ out.list.tok = InvalidTokenValue

\* the call after the second item of a list of two decoded the token 1 that
\* follows the list, the payloads having been ignored
C27_Witness ==
  /\ out.list.n = 2 /\ out.list.k = 3 /\ out.list.fresh
  /\ out.list.tok = FromNat(1) /\ out.value = PreRead /\ pc = "got"

---------------------------------------------------------------------------
(* The read loop: while (!reader.EOS()) { token = reader.GetToken(); ... } *)

\* an iteration of the loop begins: EOS() is false, no token is pushed back,
\* and GetToken is called
LoopStep == pc' = "got" /\ ~EOS(reader) /\ ~reader.tokenPushed

\* the offset has moved strictly closer to the end of the context
Advances ==
  /\ Less64(reader.offset, reader'.offset)
  /\ ~Less64(reader'.context.end, reader'.offset)

\* the Skip of the unread payload adds a length with offset + length above
\* 2^64 - 1
SkipWraps == Less64(Add64(reader.offset, reader.remainingInElement), reader.offset)

\* C28 as stated: the read loop terminates for every byte sequence, because
\* every iteration either moves the offset strictly closer to the end of the
\* context or latches bad_stream.
C28_ReadLoopAdvances == [][LoopStep => (Advances \/ reader'.badStream)]_vars

\* the same for the iterations whose Skip does not wrap; a payload length
\* that GetToken accepted because offset + length wrapped moves the offset
\* backward when it is skipped
C28_ReadLoopAdvancesUnlessWrap ==
  [][(LoopStep /\ ~SkipWraps) => (Advances \/ reader'.badStream)]_vars

\* the second iteration over a sub-stream of two members: the payload of the
\* first was skipped and the header of the second decoded, from 5 to 7
C28_Witness ==
  /\ pc = "got" /\ out.header.fresh /\ ~reader.badStream /\ Len(scopes) = 1
  /\ inp.inner = <<0, 1, 5, 1, 2, 1, 2>>
  /\ out.header.at = 5 /\ reader.offset = FromNat(7)

---------------------------------------------------------------------------
(* Token maps: TOKEN_MAP, Serializable::Write and Serializable::Read *)

\* an entry of a TOKEN_MAP: MAP_TOKEN(tok, mem) of a member of a kind, or
\* MAP_BASE_TOKEN(tok, of); of names the class of a nested record or of the
\* base, or the kind of the items of a vector, or is the declared default of
\* MAP_TOKEN(tok, mem, def)
Entry(tok, mem, kind, of) == [tok |-> tok, mem |-> mem, kind |-> kind, of |-> of]

\* the first entry of the initializer list with the token t: std::map's
\* range constructor does not replace a key it holds
FirstEntry(decl, t) ==
  decl[CHOOSE i \in DOMAIN decl :
         decl[i].tok = t /\ \A j \in 1..(i - 1) : decl[j].tok # t]

\* the least key of a set of tokens
LeastToken(S) == CHOOSE t \in S : \A u \in S : t <= u

RECURSIVE Ascending(_, _)
\* the iteration order of a std::map<uint64_t, MemberAccessor>
Ascending(decl, S) ==
  IF S = {} THEN <<>>
  ELSE <<FirstEntry(decl, LeastToken(S))>> \o Ascending(decl, S \ {LeastToken(S)})

\* mutant: the map keeps the entries in the order of the initializer list
MutTokenMapDeclared(decl) == decl

\* TokenMap(std::initializer_list<value_type>): the entries as the map
\* iterates them
TokenMap(decl) == Ascending(decl, {decl[i].tok : i \in DOMAIN decl})

\* the TOKEN_MAP of the classes: Date, Address and Employee of the README;
\* Base and Derived, which maps its base under token 0 as SecurePackageData
\* does; Requirements (the record of two uint8_t members that is the item
\* kind "rec") and Package after RequirementsData and PackageData
ClassDecl(class) ==
  CASE class = "Date" ->
         <<Entry(0, "day", "u8", ""), Entry(1, "month", "u8", ""),
           Entry(2, "year", "u16", "")>>
    [] class = "Address" ->
         <<Entry(0, "address1", "str", ""), Entry(1, "address2", "str", ""),
           Entry(2, "city", "str", ""), Entry(3, "state", "str", ""),
           Entry(4, "country", "str", ""), Entry(5, "zip", "str", "")>>
    [] class = "Employee" ->
         <<Entry(0, "name", "str", ""), Entry(1, "phone", "str", ""),
           Entry(2, "extension", "u16", ""), Entry(3, "birthDate", "rec", "Date"),
           Entry(4, "hireDate", "rec", "Date"), Entry(5, "home", "rec", "Address"),
           Entry(6, "office", "rec", "Address")>>
    [] class = "Base" ->
         <<Entry(0, "id", "u8", ""), Entry(1, "label", "str", "")>>
    [] class = "Derived" ->
         <<Entry(0, "", "base", "Base"), Entry(1, "signature", "u8", ""),
           Entry(2, "algorithm", "u8", "")>>
    [] class = "Requirements" -> <<Entry(0, "a", "u8", ""), Entry(1, "b", "u8", "")>>
    [] class = "Package" ->
         <<Entry(0, "name", "str", ""), Entry(1, "compression", "u8d", <<2>>),
           Entry(2, "requirements", "vec", "rec"), Entry(3, "languages", "vec", "u8"),
           Entry(4, "released", "rec", "Date")>>

RECURSIVE Write(_, _, _)
\* Writer::Put(Token, const Serializable&, bool) and
\* Writer::Put(Token, const Serializable&, const TokenMap&, bool)
PutObject(w, token, object, tokenMap, keepStubOnEmpty) ==
  RestoreTrim(
    PutStream([w EXCEPT !.trimDefaults = @ /\ ~keepStubOnEmpty], token,
              Write(NewSubWriter(w), object, tokenMap).stream),
    w)

\* MemberAccessor::Put of an entry e: writer << member, writer <<
\* ValueWithDefault(member, def), or for MAP_BASE_TOKEN
\* writer.Put(o, Base::GetTokenMap())
AccessorPut(w, o, e) ==
  CASE e.kind = "u8" -> StreamUByte(w, o[e.mem])
    [] e.kind = "u16" -> StreamUWord(w, o[e.mem])
    [] e.kind = "u8d" -> PutInt(w, w.nextToken, o[e.mem], e.of, FALSE)
    [] e.kind = "str" -> PutString(w, w.nextToken, o[e.mem], <<>>)
    [] e.kind = "rec" ->
         PutObject(w, w.nextToken, o[e.mem], TokenMap(ClassDecl(e.of)), FALSE)
    [] e.kind = "base" -> PutObject(w, w.nextToken, o, TokenMap(ClassDecl(e.of)), FALSE)
    [] e.kind = "vec" -> PutContainer(w, w.nextToken, o[e.mem], e.of)

\* Serializable::Write(Writer&, const TokenMap&)
Write(w, o, tokenMap) ==
  IF tokenMap = <<>> THEN w
  ELSE Write(AccessorPut(PutToken(w, FromNat(tokenMap[1].tok)), o, tokenMap[1]),
             o, Tail(tokenMap))

RECURSIVE Read(_, _, _, _)
\* reader >> member with g the result of the get
Stored(g, o, mem) == <<g[1], [o EXCEPT ![mem] = g[2]]>>

\* Reader::GetSerializable after its head
GetObjectScoped(r, atStart, o, tokenMap, uninit) ==
  IF atStart /\ r.badStream THEN <<r, o>>
  ELSE ScopeClose(Read(SubStreamOpen(r)[1], o, tokenMap, uninit), SubStreamOpen(r)[2])

\* Reader::GetSerializable(Serializable&)
GetObject(r, o, tokenMap, uninit) ==
  GetObjectScoped(ObjectLength(r), r.offset = Zero64, o, tokenMap, uninit)

\* mutant: the base is read with its token map, but without a SubStream
MutAccessorGetBaseUnscoped(r, o, e, uninit) ==
  CASE e.kind = "u8" -> Stored(GetUByte(r, uninit), o, e.mem)
    [] e.kind = "u16" -> Stored(GetInt(r, 2, FALSE, uninit), o, e.mem)
    [] e.kind = "u8d" -> Stored(GetUByte(r, uninit), o, e.mem)
    [] e.kind = "str" -> Stored(GetString(r), o, e.mem)
    [] e.kind = "rec" ->
         Stored(GetObject(r, o[e.mem], TokenMap(ClassDecl(e.of)), uninit), o, e.mem)
    [] e.kind = "base" -> Read(r, o, TokenMap(ClassDecl(e.of)), uninit)
    [] e.kind = "vec" -> Stored(GetContainer(r, o[e.mem], e.of, uninit), o, e.mem)

\* MemberAccessor::Get of an entry e: reader >> member, or for MAP_BASE_TOKEN
\* a SubStream and o.Read(reader, Base::GetTokenMap())
AccessorGet(r, o, e, uninit) ==
  CASE e.kind = "u8" -> Stored(GetUByte(r, uninit), o, e.mem)
    [] e.kind = "u16" -> Stored(GetInt(r, 2, FALSE, uninit), o, e.mem)
    [] e.kind = "u8d" -> Stored(GetUByte(r, uninit), o, e.mem)
    [] e.kind = "str" -> Stored(GetString(r), o, e.mem)
    [] e.kind = "rec" ->
         Stored(GetObject(r, o[e.mem], TokenMap(ClassDecl(e.of)), uninit), o, e.mem)
    [] e.kind = "base" ->
         ScopeClose(Read(SubStreamOpen(r)[1], o, TokenMap(ClassDecl(e.of)), uninit),
                    SubStreamOpen(r)[2])
    [] e.kind = "vec" -> Stored(GetContainer(r, o[e.mem], e.of, uninit), o, e.mem)

\* the body of the loop of Serializable::Read: g is the result of GetToken,
\* found the entries tokenMap.find(token) finds
Dispatched(g, o, tokenMap, found, uninit) ==
  IF found = <<>> THEN Read(g[1], o, tokenMap, uninit)
  ELSE Read(AccessorGet(g[1], o, found[1], uninit)[1],
            AccessorGet(g[1], o, found[1], uninit)[2], tokenMap, uninit)

\* Serializable::Read(Reader&, const TokenMap&): <<reader after, object after>>
Read(r, o, tokenMap, uninit) ==
  IF tokenMap = <<>> \/ EOS(r) THEN <<r, o>>
  ELSE Dispatched(GetToken(r), o, tokenMap,
                  SelectSeq(tokenMap, LAMBDA e : FromNat(e.tok) = GetToken(r)[2]),
                  uninit)

---------------------------------------------------------------------------
(* Records with a token map: object.Write(writer), writer << object,
   object.Read(reader), reader >> object *)

\* "Joe"
Joe == <<74, 111, 101>>

\* a Triple is a record of three uint8_t members x, y, z; its TOKEN_MAP
\* declares them in this order under the tokens a, b, c
TripleDecl(a, b, c) ==
  <<Entry(a, "x", "u8", ""), Entry(b, "y", "u8", ""), Entry(c, "z", "u8", "")>>

\* every assignment of the tokens 0, 1, 2 to the three declarations
TripleDecls ==
  {TripleDecl(a, b, c) : <<a, b, c>> \in
     {t \in (0..2) \X (0..2) \X (0..2) : t[1] # t[2] /\ t[1] # t[3] /\ t[2] # t[3]}}

\* a default constructed object of a class
NewObject(class) ==
  CASE class = "Triple" -> [x |-> <<0>>, y |-> <<0>>, z |-> <<0>>]
    [] class = "Date" -> [day |-> <<0>>, month |-> <<0>>, year |-> <<0, 0>>]
    [] class = "Address" ->
         [address1 |-> <<>>, address2 |-> <<>>, city |-> <<>>, state |-> <<>>,
          country |-> <<>>, zip |-> <<>>]
    [] class = "Employee" ->
         [name |-> <<>>, phone |-> <<>>, extension |-> <<0, 0>>,
          birthDate |-> [day |-> <<0>>, month |-> <<0>>, year |-> <<0, 0>>],
          hireDate |-> [day |-> <<0>>, month |-> <<0>>, year |-> <<0, 0>>],
          home |-> [address1 |-> <<>>, address2 |-> <<>>, city |-> <<>>,
                    state |-> <<>>, country |-> <<>>, zip |-> <<>>],
          office |-> [address1 |-> <<>>, address2 |-> <<>>, city |-> <<>>,
                      state |-> <<>>, country |-> <<>>, zip |-> <<>>]]
    [] class = "Derived" ->
         [id |-> <<0>>, label |-> <<>>, signature |-> <<0>>, algorithm |-> <<0>>]
    [] class = "Package" ->
         [name |-> <<>>, compression |-> <<2>>, requirements |-> <<>>,
          languages |-> <<>>,
          released |-> [day |-> <<0>>, month |-> <<0>>, year |-> <<0, 0>>]]

\* the objects written
Objects(class) ==
  CASE class = "Triple" -> [x : {<<0>>, <<1>>}, y : {<<0>>, <<2>>}, z : {<<0>>, <<3>>}]
    [] class = "Derived" ->
         [id : {<<0>>, <<7>>}, label : {<<>>, <<65>>}, signature : {<<0>>, <<9>>},
          algorithm : {<<0>>, <<1>>}]
    [] class = "Employee" ->
         {[NewObject("Employee") EXCEPT !.name = n, !.extension = e, !.birthDate = b,
                                        !.office = a] :
            n \in {<<>>, Joe}, e \in {<<0, 0>>, <<1, 2>>},
            b \in {NewObject("Date"), [day |-> <<9>>, month |-> <<0>>, year |-> <<7, 200>>]},
            a \in {NewObject("Address"), [NewObject("Address") EXCEPT !.city = <<66>>]}}
    [] class = "Package" ->
         [name : {<<>>, <<65>>}, compression : {<<2>>, <<1>>},
          requirements : {<<>>, <<NewRecord>>, <<[a |-> <<1>>, b |-> <<0>>]>>,
                          <<[a |-> <<1>>, b |-> <<0>>], NewRecord>>},
          languages : {<<>>, <<<<0>>>>, <<<<5>>>>, <<<<5>>, <<6>>>>},
          released : {NewObject("Date"),
                      [day |-> <<9>>, month |-> <<0>>, year |-> <<7, 200>>]}]

\* the declarations of a class
Decls(class) == IF class = "Triple" THEN TripleDecls ELSE {ClassDecl(class)}

\* no object has been read
NoRecord == [how |-> "none", o |-> <<>>, read |-> FALSE]

\* MemoryWriter writer; or MemoryWriter writer{false};
InitRecord ==
  /\ \E class \in {"Triple", "Derived", "Employee", "Package"} :
       inp \in [class : {class}, decl : Decls(class), o : Objects(class),
                trim : BOOLEAN]
  /\ writer = NewWriter(inp.trim)
  /\ reader = NewReader(<<>>)
  /\ scopes = <<>>
  /\ pc = "start"
  /\ out = NoRecord

\* object.Write(writer)
RecWrite ==
  /\ pc = "start"
  /\ writer' = Write(writer, inp.o, TokenMap(inp.decl))
  /\ out' = [out EXCEPT !.how = "write"]
  /\ pc' = "written"
  /\ UNCHANGED <<reader, scopes, inp>>

\* writer << object
RecStream ==
  /\ pc = "start"
  /\ writer' = PutObject(writer, writer.nextToken, inp.o, TokenMap(inp.decl), FALSE)
  /\ out' = [out EXCEPT !.how = "stream"]
  /\ pc' = "written"
  /\ UNCHANGED <<reader, scopes, inp>>

RECURSIVE Populated(_, _)
\* the member a Generic is given for the entry e of the token map of o: the
\* token and the value of the member, a nested record as a nested Generic, a
\* vector as a vector, a vector of one item as that item
Added(o, e) ==
  CASE e.kind \in {"u8", "u16", "str"} -> Member(e.tok, e.kind, o[e.mem], "", <<>>)
    [] e.kind = "u8d" -> Member(e.tok, "u8d", o[e.mem], "", e.of)
    [] e.kind = "rec" ->
         Member(e.tok, "gen", Populated(o[e.mem], ClassDecl(e.of)), "", <<>>)
    [] e.kind = "base" -> Member(e.tok, "gen", Populated(o, ClassDecl(e.of)), "", <<>>)
    [] e.kind = "vec" /\ e.of = "u8" ->
         IF Len(o[e.mem]) = 1 THEN Member(e.tok, "u8", o[e.mem][1], "", <<>>)
         ELSE Member(e.tok, "vec", o[e.mem], "u8", <<>>)
    [] e.kind = "vec" /\ e.of = "rec" ->
         IF Len(o[e.mem]) = 1
         THEN Member(e.tok, "gen", Populated(o[e.mem][1], ClassDecl("Requirements")),
                     "", <<>>)
         ELSE Member(e.tok, "vec",
                     [i \in DOMAIN o[e.mem] |->
                        Populated(o[e.mem][i], ClassDecl("Requirements"))],
                     "gen", <<>>)

\* the m_members of a Generic after an Add for every entry of the token map
\* of o: a std::map, iterated in ascending token order
Populated(o, decl) ==
  Ascending([i \in DOMAIN decl |-> Added(o, decl[i])],
            {decl[i].tok : i \in DOMAIN decl})

\* generic.Write(writer) for the Generic populated from the object
GenWrite ==
  /\ pc = "start"
  /\ writer' = GenericWrite(writer, Populated(inp.o, inp.decl))
  /\ out' = [out EXCEPT !.how = "generic"]
  /\ pc' = "written"
  /\ UNCHANGED <<reader, scopes, inp>>

\* Reader reader{writer.GetBuffer()}
RecOpen ==
  /\ pc = "written"
  /\ reader' = NewReader(writer.stream)
  /\ pc' = "open"
  /\ UNCHANGED <<writer, scopes, inp, out>>

\* object.Read(reader) for a default constructed object
RecRead ==
  /\ pc = "open" /\ out.how \in {"write", "generic"}
  /\ \E uninit \in {0, 255} :
       \E g \in {Read(reader, NewObject(inp.class), TokenMap(inp.decl), uninit)} :
         /\ reader' = g[1]
         /\ out' = [out EXCEPT !.o = g[2], !.read = TRUE]
  /\ pc' = "done"
  /\ UNCHANGED <<writer, scopes, inp>>

\* reader >> object for a default constructed object
RecGet ==
  /\ pc = "open" /\ out.how = "stream"
  /\ \E uninit \in {0, 255} :
       \E g \in {GetObject(reader, NewObject(inp.class), TokenMap(inp.decl), uninit)} :
         /\ reader' = g[1]
         /\ out' = [out EXCEPT !.o = g[2], !.read = TRUE]
  /\ pc' = "done"
  /\ UNCHANGED <<writer, scopes, inp>>

NextRecord == RecWrite \/ RecStream \/ GenWrite \/ RecOpen \/ RecRead \/ RecGet

SpecRecord == InitRecord /\ [][NextRecord]_vars

\* the chunk of a uint8_t member under the token tok: nothing when it is 0
\* and defaults are trimmed, else the token, the length 1 and the byte
ByteChunk(tok, v, trim) == IF trim /\ v = <<0>> THEN <<>> ELSE <<tok, 1, v[1]>>

\* the chunk of the member of a Triple declared at place i
DeclaredChunk(i) == ByteChunk(inp.decl[i].tok, inp.o[inp.decl[i].mem], inp.trim)

\* the chunk of the member of a Triple declared under the token tok
TokenChunk(tok) ==
  DeclaredChunk(CHOOSE i \in 1..3 : inp.decl[i].tok = tok)

\* a Triple has been written
TripleWritten == inp.class = "Triple" /\ out.how = "write" /\ pc # "start"

\* C21 as stated: Serializable::Write emits the fields in the order the
\* entries were declared in the token map, whatever that order.
C21_DeclaredOrder ==
  TripleWritten =>
    writer.stream = DeclaredChunk(1) \o DeclaredChunk(2) \o DeclaredChunk(3)

\* C21 as the code has it: the fields are emitted in ascending order of their
\* token values, whatever the order of the declarations.
C21_AscendingTokenOrder ==
  TripleWritten => writer.stream = TokenChunk(0) \o TokenChunk(1) \o TokenChunk(2)

\* x, y, z declared under the tokens 2, 0, 1 were written as y, z, x
C21_Witness ==
  /\ TripleWritten /\ inp.decl = TripleDecl(2, 0, 1)
  /\ writer.stream = <<0, 1, 2, 1, 1, 3, 2, 1, 1>>

\* the chunk of a std::string member under the token tok
StringChunk(tok, str, trim) ==
  IF trim /\ str = <<>> THEN <<>> ELSE <<tok, Len(str)>> \o str

\* the fields of the base of a Derived, under the tokens of the base's map
BaseFields ==
  ByteChunk(0, inp.o.id, inp.trim) \o StringChunk(1, inp.o.label, inp.trim)

\* a Derived has been written with derived.Write(writer)
DerivedWritten == inp.class = "Derived" /\ out.how = "write" /\ pc # "start"

\* C22: a record that maps its base with MAP_BASE_TOKEN writes the base's
\* fields in one sub-stream chunk under the base token (none when all of
\* them are trimmed), then its own fields; read back, the base's fields and
\* the derived fields under the same token values all hold what was written.
C22_BaseInSubStream ==
  DerivedWritten =>
    /\ writer.stream =
         (IF inp.trim /\ BaseFields = <<>> THEN <<>>
          ELSE <<0, Len(BaseFields)>> \o BaseFields)
         \o ByteChunk(1, inp.o.signature, inp.trim)
         \o ByteChunk(2, inp.o.algorithm, inp.trim)
    /\ pc = "done" =>
         out.o = inp.o /\ ~reader.badStream /\ reader.offset = reader.context.end

\* the base's id under token 0 and label under token 1 and the derived
\* signature under token 1 came back, each with its own value
C22_Witness ==
  /\ DerivedWritten /\ pc = "done" /\ inp.trim
  /\ inp.o = [id |-> <<7>>, label |-> <<65>>, signature |-> <<9>>, algorithm |-> <<0>>]
  /\ writer.stream = <<0, 6, 0, 1, 7, 1, 1, 65, 1, 1, 9>>
  /\ out.o = inp.o

\* an Employee with only the name set, "Joe", has been streamed into a fresh
\* MemoryWriter: writer << employee
JoeStreamed ==
  /\ inp.class = "Employee" /\ out.how = "stream" /\ pc # "start" /\ inp.trim
  /\ inp.o = [NewObject("Employee") EXCEPT !.name = Joe]

\* C25 as stated: writer << employee with only the name "Joe" set writes
\* exactly the 5 bytes 00 03 4A 6F 65.
C25_StreamedRecordBytes == JoeStreamed => writer.stream = <<0, 3>> \o Joe

\* what the code writes: the length of the record, 5, and then those bytes
C25_StreamedRecordWithLength == JoeStreamed => writer.stream = <<5, 0, 3>> \o Joe

\* the 6 bytes were written and reader >> employee restored the name
C25_Witness ==
  /\ JoeStreamed /\ pc = "done" /\ Len(writer.stream) = 6
  /\ out.o.name = Joe /\ out.o = inp.o /\ ~reader.badStream

\* generic.Write(writer) has run for the Generic populated from the object
GenericWritten == out.how = "generic" /\ pc # "start"

\* the stream object.Write(writer) gives for the same object and writer
OwnStream == Write(NewWriter(inp.trim), inp.o, TokenMap(inp.decl)).stream

\* a container of the object holds one item that a put of the item alone
\* trims: the item equals its default and trim_defaults is on
LoneDefaultItem ==
  /\ inp.class = "Package" /\ inp.trim
  /\ inp.o.requirements = <<NewRecord>> \/ inp.o.languages = <<<<0>>>>

\* a container of the object is empty and is written as a stub: trim_defaults
\* is off
EmptyStub ==
  /\ inp.class = "Package" /\ ~inp.trim
  /\ inp.o.requirements = <<>> \/ inp.o.languages = <<>>

\* C23 as stated: the Generic populated with the (token, value) pairs of a
\* record (nested records as nested Generics, containers as vectors, a
\* container of one item as the item) writes a stream as long as the
\* record's own, and a fresh record read from it equals the original.
C23_GenericEquivalent ==
  GenericWritten =>
    /\ Len(writer.stream) = Len(OwnStream)
    /\ pc = "done" => out.o = inp.o

\* the same, and byte for byte, unless a container holds one item equal to
\* its default with trim_defaults on; the record read back equals the
\* original unless, in addition, an empty container was written as a stub
C23_GenericEquivalentUnlessLoneDefault ==
  (GenericWritten /\ ~LoneDefaultItem) =>
    /\ writer.stream = OwnStream
    /\ (pc = "done" /\ ~EmptyStub) => out.o = inp.o /\ ~reader.badStream

\* a Package with a name, one requirement given as a single Generic, two
\* languages as a vector and a date as a nested Generic came back
C23_Witness ==
  /\ GenericWritten /\ pc = "done" /\ inp.class = "Package" /\ inp.trim
  /\ inp.o.name = <<65>> /\ inp.o.requirements = <<[a |-> <<1>>, b |-> <<0>>]>>
  /\ Len(inp.o.languages) = 2 /\ inp.o.released.day = <<9>>
  /\ out.o = inp.o /\ writer.stream = OwnStream /\ Len(writer.stream) > 20

=============================================================================
